---------------------------- MODULE Spec2Model ----------------------------
(***************************************************************************)
(* Multiview annotation workspace (cvat-multiview, cvat-ui).               *)
(*                                                                         *)
(* Several parts of the workspace are modelled, each with its own            *)
(* specification over the variables it uses:                               *)
(*                                                                         *)
(*   SpecFilter    utils/filter-annotations.ts, filterAnnotations, applied *)
(*                 to bounded annotation lists and parameters.             *)
(*   SpecSequence  MultiviewWorkspace: play/pause, the synchronized play   *)
(*                 sequence and the mute effect under view selection.      *)
(*   SpecSeek      MultiviewWorkspace: play/pause, auto-pause and the seek *)
(*                 effect under frame changes.                             *)
(*   SpecDrive     MultiviewWorkspace: the frame-drive effect (animation   *)
(*                 ticks, throttle, in-flight proposals) over the master   *)
(*                 element.                                                *)
(*   SpecEnded     MultiviewWorkspace: play/pause and the play sequences   *)
(*                 around the end of the master element's media.           *)
(*   SpecCanvas    MultiviewCanvasWrapper: mounting the drawing surface,   *)
(*                 setup calls, draw gestures, shape creation.             *)
(*   SpecEdit      MultiviewCanvasWrapper, MultiviewObjectsList: edits of  *)
(*                 existing annotations next to drawing and creation.      *)
(*   SpecSetup     MultiviewCanvasWrapper: the lists its setup calls hand  *)
(*                 to the surface under view, frame and list changes.      *)
(*   SpecFrameData MultiviewCanvasWrapper: createVideoFrameDataProxy over  *)
(*                 bounded frame and video sizes.                          *)
(*   SpecGrid      MultiviewVideoGrid: the cells rendered for tasks of     *)
(*                 MIN_VIEWS .. MAX_VIEWS views, selection and playback.   *)
(*                                                                         *)
(* A React commit (render followed by the effects whose dependencies       *)
(* changed, in declaration order) is one step together with the state      *)
(* change that caused it; timers, promise continuations and animation      *)
(* frames are steps of their own.                                          *)
(***************************************************************************)
EXTENDS Integers, Sequences, FiniteSets, TLC

(* undefined / null of the source *)
Undefined == 0 - 1

(***************************************************************************)
(* Bounds                                                                  *)
(***************************************************************************)
MaxAnnotations == 1
NViews == 2
MaxFrame == 2
MaxSequences == 2
MaxInflight == 2
MaxTicks == 6

VARIABLES
    (* SpecFilter *)
    fAnnotations,      \* argument `annotations`
    fParams,           \* argument `params`
    fStore,            \* getCVATStore().getState().annotation.job
    fResult,           \* returned list, or the thrown error
    fSetupList,        \* list the canvas wrapper's setup effect derives from the same inputs
    fDone              \* the call has returned

filterVars == <<fAnnotations, fParams, fStore, fResult, fSetupList, fDone>>

VARIABLES
    (* MultiviewWorkspace: Player / React state as last rendered *)
    playing,               \* state.annotation.player.playing
    frameNumber,           \* state.annotation.player.frame.number
    job,                   \* state.annotation.job.instance
    fps,                   \* multiviewData.videos.view1.fps
    activeView,            \* useState activeView
    activeControl,         \* state.annotation.canvas.activeControl
    (* refs *)
    playingRef,
    frameNumberRef,
    prevActiveControlRef,
    lastFrameRef,
    (* DOM and asynchronous activities *)
    videos,                \* the .multiview-video elements, by view
    sequences,             \* playAllVideos calls that have not returned yet
    drive,                 \* closure of the frame-drive effect
    inflight,              \* changeFrameAsync dispatches that have not settled
    now,                   \* performance.now(), ms
    (* observation *)
    last,                  \* name of the last step
    log,                   \* calls of the last step, in order
    seeked,                \* elements whose position the seek effect wrote in the last step
    finished,              \* the play sequence that returned last
    tickObs,               \* what the last animation tick saw and did
    run,                   \* candidates and proposals of the current effect activation
    ended                  \* the master has fired 'ended' since the Player last switched to playing

playVars == <<playing, frameNumber, job, fps, activeView, activeControl,
              playingRef, frameNumberRef, prevActiveControlRef, lastFrameRef,
              videos, sequences, drive, inflight, now,
              last, log, seeked, finished, tickObs, run, ended>>

VARIABLES
    (* MultiviewCanvasWrapper and the drawing surface *)
    canvasInstance,        \* state.annotation.canvas.instance is present
    canvas,                \* the surface: mode(), the open gesture, its view id
    canvasContainer,       \* prop canvasContainer: the overlay of this view, 0 for null
    canvasParent,          \* the container that holds canvasInstance.html(), 0 for none
    listeners,             \* the wrapper's listeners are on canvasInstance.html()
    mountedRef,
    prevViewIdRef,         \* 0 for null
    states,                \* state.annotation.annotations.states
    creating,              \* createAnnotationsAsync dispatches that have not settled
    jobLabels,             \* jobInstance.labels, by id
    drawingStore,          \* state.annotation.drawing: activeLabelID, activeObjectType
    (* observation *)
    calls,                 \* surface calls and dispatches of the wrapper in the last step
    before,                \* the surface before the last step, and the event handled
    withheld               \* the setup effect has skipped its call since the last setup

canvasVars == <<canvasInstance, canvas, canvasContainer, canvasParent, listeners, mountedRef,
                prevViewIdRef, states, creating, jobLabels, drawingStore, calls, before,
                withheld>>

VARIABLES
    (* createVideoFrameDataProxy, as the wrapper's setup calls apply it *)
    frameData,             \* state.annotation.player.frame.data: width, height, or null
    videoDimensions,       \* useState videoDimensions of the wrapper
    effectiveFrameData,    \* the frame data handed to canvasInstance.setup
    proxied,               \* the call has returned
    videoSize,             \* videoWidth, videoHeight of each view's element; 0 before metadata
    setupData              \* view id and frame data of the setup calls of the last step

frameVars == <<frameData, videoDimensions, effectiveFrameData, proxied, videoSize, setupData>>

VARIABLES
    (* MultiviewVideoGrid *)
    multiviewData          \* state.annotation.multiviewData: the views k whose videos.view<k>.url is set

gridVars == <<multiviewData>>

vars == <<filterVars, playVars, canvasVars, frameVars, gridVars>>

(***************************************************************************)
(* utils/filter-annotations.ts                                             *)
(***************************************************************************)
Views == 1 .. NViews
Frames == 0 .. MaxFrame

ObjectTypes == {"shape", "track", "tag"}
Workspaces == {"MULTIVIEW", "STANDARD", "REVIEW"}

(* ObjectState, as far as filterAnnotations, the canvas wrapper and the     *)
(* objects list read or write it. Only tracks are flagged as ground truth  *)
(* here; points stands for the geometry (points and rotation), 0 as drawn. *)
ObjectStates ==
    { s \in [objectType : ObjectTypes, frame : Frames \cup {Undefined},
             viewId : Views \cup {Undefined}, isGroundTruth : BOOLEAN,
             points : {0}, description : {""}, needs_review : {FALSE}] :
        s.isGroundTruth => s.objectType = "track" }

(* FilterAnnotationsParams; exclude / include are sets of object types, *)
(* {"none"} standing for an absent list.                                *)
NoList == {"none"}
FilterParams ==
    [workspace : Workspaces,
     exclude : {NoList, {"tag"}},
     include : {NoList, {"shape"}},
     frame : Frames \cup {Undefined},
     viewId : Views \cup {Undefined}]

(* state.annotation.job: meta / instance present, job.startFrame, and      *)
(* groundTruthJobFramesMeta.includedFrames ({Undefined} when absent).      *)
(* meta carries the data start frame and frame step of the task.           *)
JobStores ==
    { [hasMeta |-> FALSE, startFrame |-> 0, dataStart |-> 0, frameStep |-> 1,
       includedFrames |-> {Undefined}],
      [hasMeta |-> TRUE, startFrame |-> 0, dataStart |-> 1, frameStep |-> 2,
       includedFrames |-> {3}] }

(* meta.getDataFrameNumber: job-relative frame to data frame number. *)
getDataFrameNumber(store, relFrame) == store.dataStart + relFrame * store.frameStep

(* Mutant of filterKeeps: annotations without viewId pass in every view. *)
filterKeeps_UnsetEverywhere(objectState, params, store) ==
    IF params.exclude # NoList /\ objectState.objectType \in params.exclude
    THEN FALSE
    ELSE IF params.include # NoList /\ objectState.objectType \notin params.include
    THEN FALSE
    ELSE IF objectState.objectType = "shape" /\ params.frame # Undefined
            /\ objectState.frame # params.frame
    THEN FALSE
    ELSE IF params.viewId # Undefined /\ params.workspace = "MULTIVIEW"
            /\ objectState.viewId # Undefined
            /\ objectState.viewId # params.viewId
    THEN FALSE
    ELSE TRUE

(* The predicate of annotations.filter(...) in filterAnnotations. *)
filterKeeps(objectState, params, store) ==
    IF params.exclude # NoList /\ objectState.objectType \in params.exclude
    THEN FALSE
    ELSE IF params.include # NoList /\ objectState.objectType \notin params.include
    THEN FALSE
    ELSE IF objectState.objectType = "shape" /\ params.frame # Undefined
            /\ objectState.frame # params.frame
    THEN FALSE
    ELSE IF params.viewId # Undefined /\ params.workspace = "MULTIVIEW"
            /\ ( IF objectState.viewId = Undefined
                 THEN params.viewId # 1
                 ELSE objectState.viewId # params.viewId )
    THEN FALSE
    ELSE IF store.hasMeta /\ params.workspace = "REVIEW"
            /\ store.includedFrames # {Undefined}
            /\ params.frame # Undefined /\ params.frame # 0
            /\ objectState.objectType = "track" /\ objectState.isGroundTruth
    THEN getDataFrameNumber(store, params.frame - store.startFrame) \in store.includedFrames
    ELSE TRUE

(* filterAnnotations: the thrown Error is the result [threw |-> TRUE]. *)
filterAnnotations(annotations, params, store) ==
    IF params.exclude # NoList /\ params.include # NoList
    THEN [threw |-> TRUE, list |-> <<>>]
    ELSE [threw |-> FALSE,
          list |-> LET keep(s) == filterKeeps(s, params, store)
                   IN  SelectSeq(annotations, keep)]

(* Mutant of setupAnnotations: the frame is not handed to filterAnnotations. *)
setupAnnotations_FrameBlind(annotations, frame, workspace, viewId, store) ==
    LET pre == filterAnnotations(annotations,
                   [workspace |-> workspace, exclude |-> {"tag"}, include |-> NoList,
                    frame |-> Undefined, viewId |-> Undefined], store).list
        keep(s) == IF s.viewId = Undefined THEN viewId = 1
                   ELSE s.viewId = viewId
    IN  SelectSeq(pre, keep)

(* Mutant of setupAnnotations: annotations without viewId pass in every view *)
(* (the filter of the earlier revision of the setup effect).                 *)
setupAnnotations_UnsetEverywhere(annotations, frame, workspace, viewId, store) ==
    LET pre == filterAnnotations(annotations,
                   [workspace |-> workspace, exclude |-> {"tag"}, include |-> NoList,
                    frame |-> frame, viewId |-> Undefined], store).list
        keep(s) == s.viewId = viewId \/ s.viewId = Undefined
    IN  SelectSeq(pre, keep)

(* MultiviewCanvasWrapper, setup effect and initial setup: the annotations  *)
(* handed to canvasInstance.setup (tags excluded, then the viewId filter). *)
setupAnnotations(annotations, frame, workspace, viewId, store) ==
    LET pre == filterAnnotations(annotations,
                   [workspace |-> workspace, exclude |-> {"tag"}, include |-> NoList,
                    frame |-> frame, viewId |-> Undefined], store).list
        keep(s) == IF s.viewId = Undefined THEN viewId = 1
                   ELSE s.viewId = viewId
    IN  SelectSeq(pre, keep)

AnnotationLists == UNION { [1 .. n -> ObjectStates] : n \in 0 .. MaxAnnotations }

FilterInit ==
    /\ fAnnotations \in AnnotationLists
    /\ fParams \in FilterParams
    /\ fStore \in JobStores
    /\ fResult = [threw |-> FALSE, list |-> <<>>]
    /\ fSetupList = <<>>
    /\ fDone = FALSE

CallFilter ==
    /\ ~fDone
    /\ fResult' = filterAnnotations(fAnnotations, fParams, fStore)
    /\ fSetupList' = IF fParams.frame # Undefined /\ fParams.viewId # Undefined
                     THEN setupAnnotations(fAnnotations, fParams.frame, fParams.workspace,
                                           fParams.viewId, fStore)
                     ELSE <<>>
    /\ fDone' = TRUE
    /\ UNCHANGED <<fAnnotations, fParams, fStore>>

FilterNext == CallFilter /\ UNCHANGED <<playVars, canvasVars, frameVars, gridVars>>

(***************************************************************************)
(* MultiviewWorkspace (multiview-workspace.tsx, latest revision)           *)
(***************************************************************************)
(* Times are in milliseconds: performance.now() and the media positions. *)
MsPerSecond == 10 * 100
THROTTLE_MS == 100
FpsValues == {25, 50}
(* spacing of animation ticks, and the step by which playing media advance *)
TickMs == THROTTLE_MS \div 5
ClockStart == 10 * THROTTLE_MS

CURSOR == "cursor"
DRAW_ACTIVE_CONTROLS == {"draw_rectangle", "draw_polygon"}
ActiveControls == {CURSOR} \cup DRAW_ACTIVE_CONTROLS

Abs(x) == IF x < 0 THEN 0 - x ELSE x
Min(a, b) == IF a < b THEN a ELSE b

(* the time of a frame counted from frame 0 instead of the job's first frame *)
frameTime_Absolute(frame, j, f) == (frame * MsPerSecond) \div f

(* (frame - (job?.startFrame || 0)) / fps, in ms *)
frameTime(frame, j, f) == ((frame - j.startFrame) * MsPerSecond) \div f

(* 0.5 / fps, in ms *)
seekTolerance(f) == (MsPerSecond \div 2) \div f

(* Math.round(masterTime * fps): halves round up *)
candidateFrame(masterTime, f) == (2 * masterTime * f + MsPerSecond) \div (2 * MsPerSecond)

(* the media cover the frames of the job *)
Duration(j, f) == frameTime(j.stopFrame, j, f)

ViewsOf(w) == DOMAIN w.videos

(* observation records of a step that is no animation tick / ends no sequence *)
NoTick ==
    [ticked |-> FALSE, cand |-> Undefined, proposed |-> FALSE, prevFrame |-> Undefined,
     prevTime |-> Undefined, outstanding |-> 0]
NoFinished == [ops |-> <<>>, startView |-> 0]

Props ==
    [playing |-> playing, frameNumber |-> frameNumber, job |-> job, fps |-> fps,
     activeView |-> activeView, activeControl |-> activeControl]

World ==
    [playing |-> playing, playingRef |-> playingRef, frameNumberRef |-> frameNumberRef,
     prevActiveControlRef |-> prevActiveControlRef, lastFrameRef |-> lastFrameRef,
     videos |-> videos, sequences |-> sequences, drive |-> drive, inflight |-> inflight,
     log |-> <<>>, seeked |-> {}, finished |-> NoFinished, tickObs |-> NoTick, run |-> run]

Called(w, name) == [w EXCEPT !.log = Append(@, name)]

(* playingRef.current = b *)
setPlayingRef(w, b) ==
    Called([w EXCEPT !.playingRef = b], IF b THEN "playingRef:=true" ELSE "playingRef:=false")

(* operations of a play sequence, in the order it performs them *)
PauseMuteOps(n) ==
    [i \in 1 .. 2 * n |-> [op |-> IF i % 2 = 1 THEN "pause" ELSE "mute", v |-> (i + 1) \div 2]]
ForEachOps(name, n) == [i \in 1 .. n |-> [op |-> name, v |-> i]]
WaitOp == <<[op |-> "wait", v |-> 0]>>

(* Mutant of playAllVideos: playback is started before the elements are seeked. *)
playAllVideos_PlayFirst(w, p) ==
    LET n == Cardinality(ViewsOf(w))
        targetTime == frameTime(w.frameNumberRef, p.job, p.fps)
    IN  Called([w EXCEPT
            !.videos = [v \in ViewsOf(w) |->
                           [currentTime |-> targetTime, paused |-> FALSE, muted |-> TRUE]],
            !.sequences = Append(@, [pc |-> "delay",
                                     ops |-> PauseMuteOps(n) \o ForEachOps("play", n)
                                             \o ForEachOps("seek", n) \o WaitOp,
                                     startView |-> p.activeView])],
           "playAllVideos")

(* playAllVideos up to its first await: pause and mute all, seek all to the *)
(* time of frameNumberRef, then wait 50 ms.                                 *)
playAllVideos(w, p) ==
    LET n == Cardinality(ViewsOf(w))
        targetTime == frameTime(w.frameNumberRef, p.job, p.fps)
    IN  IF n = 0 THEN Called(w, "playAllVideos") ELSE
        Called([w EXCEPT
            !.videos = [v \in ViewsOf(w) |->
                           [currentTime |-> targetTime, paused |-> TRUE, muted |-> TRUE]],
            !.sequences = Append(@, [pc |-> "delay",
                                     ops |-> PauseMuteOps(n) \o ForEachOps("seek", n) \o WaitOp,
                                     startView |-> p.activeView])],
           "playAllVideos")

pauseAllVideos(w) ==
    Called([w EXCEPT !.videos = [v \in ViewsOf(w) |-> [@[v] EXCEPT !.paused = TRUE]]],
           "pauseAllVideos")

(* dispatch(switchPlay(false)) *)
switchPlay(w, b) == Called([w EXCEPT !.playing = b], "switchPlay(false)")

(* Mutant of playPauseEffect: the ref is written after the elements are commanded. *)
playPauseEffect_RefLate(w, p) ==
    IF p.playing
    THEN setPlayingRef(playAllVideos(w, p), TRUE)
    ELSE setPlayingRef(pauseAllVideos(w), FALSE)

(* effect [playing] *)
playPauseEffect(w, p) ==
    IF p.playing
    THEN playAllVideos(setPlayingRef(w, TRUE), p)
    ELSE pauseAllVideos(setPlayingRef(w, FALSE))

(* Mutant of autoPauseEffect: presence in a draw control pauses, not only the *)
(* transition into one.                                                      *)
autoPauseEffect_SteadyState(w, p) ==
    LET isInDrawMode == p.activeControl \in DRAW_ACTIVE_CONTROLS
        w1 == IF p.playing /\ isInDrawMode
              THEN switchPlay(pauseAllVideos(setPlayingRef(w, FALSE)), FALSE)
              ELSE w
    IN  [w1 EXCEPT !.prevActiveControlRef = p.activeControl]

(* effect [activeControl, playing]: auto-pause on entering a draw control *)
autoPauseEffect(w, p) ==
    LET wasInDrawMode == w.prevActiveControlRef \in DRAW_ACTIVE_CONTROLS
        isInDrawMode == p.activeControl \in DRAW_ACTIVE_CONTROLS
        w1 == IF p.playing /\ ~wasInDrawMode /\ isInDrawMode
              THEN switchPlay(pauseAllVideos(setPlayingRef(w, FALSE)), FALSE)
              ELSE w
    IN  [w1 EXCEPT !.prevActiveControlRef = p.activeControl]

(* Mutant of seekEffect: the elements are sought during playback as well. *)
seekEffect_WhilePlaying(w, p) ==
    LET targetTime == frameTime(p.frameNumber, p.job, p.fps)
        hit == { v \in ViewsOf(w) :
                   Abs(w.videos[v].currentTime - targetTime) > seekTolerance(p.fps) }
    IN  [w EXCEPT
            !.videos = [v \in ViewsOf(w) |->
                           IF v \in hit THEN [@[v] EXCEPT !.currentTime = targetTime] ELSE @[v]],
            !.seeked = hit]

(* Mutant of seekEffect: the tolerance is a whole frame interval. *)
seekEffect_WideTolerance(w, p) ==
    IF w.playingRef THEN w
    ELSE
    LET targetTime == frameTime(p.frameNumber, p.job, p.fps)
        hit == { v \in ViewsOf(w) :
                   Abs(w.videos[v].currentTime - targetTime) > 2 * seekTolerance(p.fps) }
    IN  [w EXCEPT
            !.videos = [v \in ViewsOf(w) |->
                           IF v \in hit THEN [@[v] EXCEPT !.currentTime = targetTime] ELSE @[v]],
            !.seeked = hit]

(* effect [frameNumber, job, fps]: seek all elements while not playing *)
seekEffect(w, p) ==
    IF w.playingRef THEN w
    ELSE
    LET targetTime == frameTime(p.frameNumber, p.job, p.fps)
        hit == { v \in ViewsOf(w) :
                   Abs(w.videos[v].currentTime - targetTime) > seekTolerance(p.fps) }
    IN  [w EXCEPT
            !.videos = [v \in ViewsOf(w) |->
                           IF v \in hit THEN [@[v] EXCEPT !.currentTime = targetTime] ELSE @[v]],
            !.seeked = hit]

(* video.muted = !cell.classList.contains('active'), for every element; the *)
(* class is the rendered activeView (multiview-video-grid.tsx)              *)
muteByActiveCell(w, view) ==
    [w EXCEPT !.videos = [v \in ViewsOf(w) |-> [@[v] EXCEPT !.muted = (v # view)]]]

(* effect [activeView] *)
muteEffect(w, p) == muteByActiveCell(w, p.activeView)

(* <video muted={!isActive}>: React writes the property of the elements whose *)
(* prop changed (video-canvas.tsx)                                            *)
renderMuted(w, p0, p) ==
    [w EXCEPT !.videos = [v \in ViewsOf(w) |->
        IF (v = p0.activeView) # (v = p.activeView)
        THEN [@[v] EXCEPT !.muted = (v # p.activeView)] ELSE @[v]]]

NoClosure ==
    [alive |-> FALSE, lastDispatchedFrame |-> Undefined, lastDispatchTime |-> 0,
     pendingDispatch |-> FALSE]
NoRun ==
    [first |-> Undefined, cands |-> <<>>, props |-> <<>>, since |-> Undefined,
     from |-> Undefined]

(* effect [playing, fps, job]: cleanup of the previous activation, then the *)
(* body up to requestAnimationFrame(updateFrame)                            *)
driveEffect(w, p) ==
    LET orphaned == [i \in DOMAIN w.inflight |-> [w.inflight[i] EXCEPT !.own = FALSE]]
    IN  IF ~p.playing
        THEN [w EXCEPT !.lastFrameRef = Undefined, !.drive = NoClosure,
                       !.inflight = orphaned, !.run = NoRun]
        ELSE [w EXCEPT
                !.drive = [alive |-> TRUE, lastDispatchedFrame |-> w.lastFrameRef,
                           lastDispatchTime |-> 0, pendingDispatch |-> FALSE],
                !.inflight = orphaned,
                !.run = [first |-> w.lastFrameRef, cands |-> <<>>, props |-> <<>>,
                         since |-> w.run.since,
                         from |-> IF w.drive.alive THEN w.run.from ELSE p.frameNumber]]

(* frameNumberRef.current = frameNumber *)
frameNumberRefEffect(w, p) == [w EXCEPT !.frameNumberRef = p.frameNumber]

(* the effects of the workspace, by the state they are about *)
WorkspaceEffect(name, w, p) ==
    CASE name = "frameNumberRef" -> frameNumberRefEffect(w, p)
      [] name = "playPause" -> playPauseEffect(w, p)
      [] name = "autoPause" -> autoPauseEffect(w, p)
      [] name = "seek" -> seekEffect(w, p)
      [] name = "mute" -> muteEffect(w, p)
      [] name = "drive" -> driveEffect(w, p)

(* an effect runs in a commit when one of its dependencies changed *)
RunIf(changed, name, w, p) == IF changed THEN WorkspaceEffect(name, w, p) ELSE w

(* One React commit: the effects whose dependencies changed between the *)
(* props p0 of the previous render and p, in declaration order.         *)
Commit(w, p0, p) ==
    RunIf(p0.playing # p.playing \/ p0.fps # p.fps \/ p0.job # p.job, "drive",
      RunIf(p0.activeView # p.activeView, "mute",
        RunIf(p0.frameNumber # p.frameNumber \/ p0.job # p.job \/ p0.fps # p.fps, "seek",
          RunIf(p0.activeControl # p.activeControl \/ p0.playing # p.playing, "autoPause",
            RunIf(p0.playing # p.playing, "playPause",
              RunIf(p0.frameNumber # p.frameNumber, "frameNumberRef",
                renderMuted(w, p0, p), p), p), p), p), p), p)

(* the commit of the re-render that a dispatch from an effect causes *)
Recommit(wa, p) ==
    IF wa.playing # p.playing
    THEN Commit(wa, p, [p EXCEPT !.playing = wa.playing])
    ELSE wa

(* The commit of a change of the store or of React state, and the commit of *)
(* the re-render that a dispatch from an effect causes.                     *)
Commits(w, p0, p) == Recommit(Commit([w EXCEPT !.playing = p.playing], p0, p), p)

(* the next state of the workspace: props p (playing as the store has it), world w *)
WorkspaceBecomes(p, w, name) ==
    /\ playing' = w.playing
    /\ frameNumber' = p.frameNumber
    /\ job' = p.job
    /\ fps' = p.fps
    /\ activeView' = p.activeView
    /\ activeControl' = p.activeControl
    /\ playingRef' = w.playingRef
    /\ frameNumberRef' = w.frameNumberRef
    /\ prevActiveControlRef' = w.prevActiveControlRef
    /\ lastFrameRef' = w.lastFrameRef
    /\ videos' = w.videos
    /\ sequences' = w.sequences
    /\ drive' = w.drive
    /\ inflight' = w.inflight
    /\ last' = name
    /\ log' = w.log
    /\ seeked' = w.seeked
    /\ finished' = w.finished
    /\ tickObs' = w.tickObs
    /\ run' = w.run
    /\ ended' = IF name = "MasterEnded" THEN TRUE ELSE IF name = "Play" THEN FALSE ELSE ended
    /\ UNCHANGED <<filterVars, frameVars, gridVars>>

(***************************************************************************)
(* MultiviewCanvasWrapper (multiview-canvas-wrapper.tsx, latest revision)  *)
(* and the drawing surface it drives                                       *)
(***************************************************************************)
NoContainer == 0
IDLE == "idle"
DRAW_MODES == {"draw", "draw_rect", "draw_polygon"}

(* event.detail of canvas.drawn, as far as onCanvasShapeDrawn reads it; *)
(* "none" and Undefined stand for absent fields                         *)
ShapeDetails ==
    [continue : BOOLEAN, objectType : {"none"}, mask : {FALSE}, label : {Undefined, 1}]
NoDetail == [continue |-> FALSE, objectType |-> "none", mask |-> FALSE, label |-> Undefined]
NoBefore == [drawing |-> FALSE, gesture |-> FALSE, detail |-> NoDetail, withheld |-> FALSE,
             mode |-> IDLE]

(* the values the wrapper renders with; stateRefs.current holds the same *)
(* values once the effects of the commit have run                        *)
WrapperProps(p, container, sts) ==
    [activeViewId |-> p.activeView, activeControl |-> p.activeControl,
     frameNumber |-> p.frameNumber, canvasContainer |-> container, annotations |-> sts]

stateRefs == WrapperProps(Props, canvasContainer, states)

CanvasWorld ==
    [canvas |-> canvas, canvasParent |-> canvasParent, listeners |-> listeners,
     mountedRef |-> mountedRef, prevViewIdRef |-> prevViewIdRef,
     control |-> activeControl, creating |-> creating, calls |-> <<>>,
     withheld |-> withheld]

Call(name, viewId, frame, list) ==
    [op |-> name, viewId |-> viewId, frame |-> frame, list |-> list]
SurfaceCall(c, name) == [c EXCEPT !.calls = Append(@, Call(name, 0, Undefined, <<>>))]

isCanvasInDrawMode(c) == canvasInstance /\ c.canvas.mode \in DRAW_MODES
isDrawOperationRequested(control) == control \in DRAW_ACTIVE_CONTROLS
shouldPreserveDrawState(c, control) ==
    isCanvasInDrawMode(c) \/ isDrawOperationRequested(control)

(* dispatch(updateActiveControlAction(control)) / dispatch(resetCanvas()) *)
dispatchControl(c, control) == [c EXCEPT !.control = control]

(* the surface (outside this source tree): cancel() ends the open gesture, *)
(* setup() resets the surface, draw() arms a draw tool                     *)
canvasCancel(c) ==
    SurfaceCall([c EXCEPT !.canvas.mode = IDLE, !.canvas.gesture = FALSE], "cancel")
canvasSetup(c, q) ==
    [c EXCEPT !.withheld = FALSE,
              !.canvas.gesture = FALSE,
              !.canvas.mode = IF @ \in {"edit", "drag", "resize"} THEN IDLE ELSE @,
              !.calls = Append(@, Call("setup", q.activeViewId, q.frameNumber,
                            setupAnnotations(q.annotations, q.frameNumber, "MULTIVIEW",
                                             q.activeViewId,
                                             [hasMeta |-> FALSE, startFrame |-> 0,
                                              dataStart |-> 0, frameStep |-> 1,
                                              includedFrames |-> {Undefined}])))]
canvasDraw(c) == [c EXCEPT !.canvas.mode = "draw", !.canvas.gesture = FALSE]
canvasSetViewId(c, viewId) == [c EXCEPT !.canvas.viewId = viewId]

(* cleanup of the mount effect; r is stateRefs.current, not yet updated *)
mountCleanup(c, r) ==
    LET c1 == IF ~shouldPreserveDrawState(c, r.activeControl) THEN canvasCancel(c) ELSE c
    IN  [c1 EXCEPT !.listeners = FALSE, !.mountedRef = FALSE]

(* the view change effect that only records the view *)
viewChangeEffect_NoReset(c, q) ==
    [c EXCEPT !.prevViewIdRef = q.activeViewId]

(* effect [canvasInstance, activeViewId]: reset of the surface on a view change *)
viewChangeEffect(c, q) ==
    LET c1 == IF c.prevViewIdRef # NoContainer /\ c.prevViewIdRef # q.activeViewId
              THEN dispatchControl(canvasCancel(c), CURSOR)
              ELSE c
    IN  [c1 EXCEPT !.prevViewIdRef = q.activeViewId]

(* the initial setup of the mount effect, and the body of the setup effect *)
setupUnlessDrawing(c, q) ==
    IF shouldPreserveDrawState(c, q.activeControl)
    THEN [c EXCEPT !.withheld = TRUE]
    ELSE canvasSetup(c, q)

(* mode reset of the mount effect *)
resetStuckMode(c, q) ==
    IF c.canvas.mode = "zoom_canvas"
    THEN SurfaceCall([c EXCEPT !.canvas.mode = IDLE], "zoomCanvas")
    ELSE IF c.canvas.mode = "drag_canvas"
    THEN SurfaceCall([c EXCEPT !.canvas.mode = IDLE], "dragCanvas")
    ELSE IF ~shouldPreserveDrawState(c, q.activeControl)
    THEN canvasCancel(c)
    ELSE c

attachListeners(c) == [c EXCEPT !.listeners = TRUE]

(* effect [canvasContainer, canvasInstance, activeViewId]: mount *)
mountEffect(c, q) ==
    IF q.canvasContainer = NoContainer
    THEN c
    ELSE setupUnlessDrawing(
           attachListeners(
             SurfaceCall(
               SurfaceCall(
                 canvasSetViewId(
                   resetStuckMode([c EXCEPT !.canvasParent = q.canvasContainer,
                                            !.mountedRef = TRUE], q),
                   q.activeViewId),
                 "configure"),
               "fitCanvas")),
           q)

(* effect [frameData, annotations, activeViewId, frameNumber, activeControl, ...] *)
setupEffect(c, q) == IF ~c.mountedRef THEN c ELSE setupUnlessDrawing(c, q)

(* effect [canvasInstance, activeViewId]: canvasInstance.setViewId *)
setViewIdEffect(c, q) == canvasSetViewId(c, q.activeViewId)

(* the effects of the wrapper and the cleanup of its mount effect *)
WrapperEffect(name, c, q) ==
    CASE name = "mountCleanup" -> mountCleanup(c, q)
      [] name = "viewChange" -> viewChangeEffect(c, q)
      [] name = "mount" -> mountEffect(c, q)
      [] name = "setup" -> setupEffect(c, q)
      [] name = "setViewId" -> setViewIdEffect(c, q)

WrapperRunIf(changed, name, c, q) == IF changed THEN WrapperEffect(name, c, q) ELSE c

(* Mutant of wrapperCommit: activeControl is no dependency of the setup effect. *)
wrapperCommit_NoControlDep(c, q0, q) ==
    IF ~canvasInstance
    THEN c
    ELSE WrapperRunIf(q0.activeViewId # q.activeViewId, "setViewId",
           WrapperRunIf(q0.annotations # q.annotations \/ q0.activeViewId # q.activeViewId
                           \/ q0.frameNumber # q.frameNumber, "setup",
             WrapperRunIf(q0.canvasContainer # q.canvasContainer
                             \/ q0.activeViewId # q.activeViewId, "mount",
               WrapperRunIf(q0.activeViewId # q.activeViewId, "viewChange",
                 WrapperRunIf((q0.canvasContainer # q.canvasContainer
                                  \/ q0.activeViewId # q.activeViewId)
                                 /\ q0.canvasContainer # NoContainer, "mountCleanup",
                              c, q0), q), q), q), q)

(* One commit of the wrapper: the cleanups of the effects whose dependencies *)
(* changed, then these effects in the order of their declaration.           *)
wrapperCommit(c, q0, q) ==
    IF ~canvasInstance
    THEN c
    ELSE WrapperRunIf(q0.activeViewId # q.activeViewId, "setViewId",
           WrapperRunIf(q0.annotations # q.annotations \/ q0.activeViewId # q.activeViewId
                           \/ q0.frameNumber # q.frameNumber
                           \/ q0.activeControl # q.activeControl, "setup",
             WrapperRunIf(q0.canvasContainer # q.canvasContainer
                             \/ q0.activeViewId # q.activeViewId, "mount",
               WrapperRunIf(q0.activeViewId # q.activeViewId, "viewChange",
                 WrapperRunIf((q0.canvasContainer # q.canvasContainer
                                  \/ q0.activeViewId # q.activeViewId)
                                 /\ q0.canvasContainer # NoContainer, "mountCleanup",
                              c, q0), q), q), q), q)

(* the commit of the re-render a dispatch from an effect causes *)
wrapperRecommit(ca, q) ==
    IF ca.control # q.activeControl
    THEN wrapperCommit(ca, q, [q EXCEPT !.activeControl = ca.control])
    ELSE ca

(* the commit, and the commit of the re-render a dispatch from an effect causes *)
wrapperCommits(c, q0, q) ==
    wrapperRecommit(wrapperCommit([c EXCEPT !.control = q.activeControl], q0, q), q)

Snapshot(detail) ==
    IF canvasInstance
    THEN [drawing |-> shouldPreserveDrawState(CanvasWorld, activeControl),
          gesture |-> canvas.gesture, detail |-> detail,
          withheld |-> withheld, mode |-> canvas.mode]
    ELSE NoBefore

CanvasBecomes(c, container, sts, detail) ==
    /\ canvas' = c.canvas
    /\ canvasContainer' = container
    /\ canvasParent' = c.canvasParent
    /\ listeners' = c.listeners
    /\ mountedRef' = c.mountedRef
    /\ prevViewIdRef' = c.prevViewIdRef
    /\ states' = sts
    /\ creating' = c.creating
    /\ calls' = c.calls
    /\ withheld' = c.withheld
    /\ before' = Snapshot(detail)
    /\ UNCHANGED <<canvasInstance, jobLabels, drawingStore>>

(* the state after the commits: cw the wrapper, wa the workspace; a control *)
(* the wrapper dispatched reaches the workspace in one more commit         *)
Rendered(cw, wa, p, container, sts, detail, name) ==
    LET pa == [p EXCEPT !.playing = wa.playing]
        pb == [p EXCEPT !.playing = wa.playing, !.activeControl = cw.control]
    IN  /\ WorkspaceBecomes(pb, IF pb # pa THEN Commits(wa, pa, pb) ELSE wa, name)
        /\ CanvasBecomes(cw, container, sts, detail)

(* A render of the workspace and its children with props p, the wrapper's   *)
(* container and annotations as given: the effects of the wrapper, those of *)
(* the workspace, and the same again for a change an effect dispatched.     *)
RenderAll(w0, c0, p, container, sts, detail, name) ==
    Rendered(wrapperCommits(c0, stateRefs, WrapperProps(p, container, sts)),
             Commits(w0, Props, p), p, container, sts, detail, name)

Render(w0, p, name) ==
    RenderAll(w0, CanvasWorld, p, canvasContainer, states, NoDetail, name)

(* a step that renders nothing anew *)
Becomes(p, w, name) ==
    /\ WorkspaceBecomes(p, w, name)
    /\ CanvasBecomes(CanvasWorld, canvasContainer, states, NoDetail)

(* ---- steps -------------------------------------------------------------- *)

(* the Player switches to playing (play button) *)
Play ==
    /\ ~playing
    /\ Len(sequences) < MaxSequences
    /\ Render(World, [Props EXCEPT !.playing = TRUE], "Play")
    /\ UNCHANGED now

(* the Player switches to paused *)
Pause ==
    /\ playing
    /\ Render(World, [Props EXCEPT !.playing = FALSE], "Pause")
    /\ UNCHANGED now

(* Mutant of overlayAfterSelect: the overlay reported last stays the container. *)
overlayAfterSelect_Stays(container, v) == container

(* The overlay the grid reports when view v becomes active: only the active  *)
(* cell renders an overlay and is given the callback, so the overlay of the  *)
(* old view reports null as it unmounts and that of v reports its element;   *)
(* without an overlay on display (grid not loaded) nothing is reported.      *)
overlayAfterSelect(container, v) == IF container = NoContainer THEN NoContainer ELSE v

(* the commit of the re-render that setCanvasContainer from a ref callback *)
(* causes: the wrapper's props differ in the container                     *)
wrapperRemount(ca, q, container) ==
    IF container # q.canvasContainer
    THEN wrapperCommits(ca, [q EXCEPT !.activeControl = ca.control],
                        [q EXCEPT !.activeControl = ca.control,
                                  !.canvasContainer = container])
    ELSE ca

(* A render with props p in which the overlays report `container`: the    *)
(* commit of p with the container of the previous render, then the commit *)
(* of the container.                                                      *)
RenderView(w0, p, container, name) ==
    Rendered(wrapperRemount(wrapperCommits(CanvasWorld, stateRefs,
                                           WrapperProps(p, canvasContainer, states)),
                            WrapperProps(p, canvasContainer, states), container),
             Commits(w0, Props, p), p, container, states, NoDetail, name)

(* a cell of the grid is clicked: setActiveView(v) *)
SelectView(v) ==
    /\ v # activeView
    /\ RenderView(World, [Props EXCEPT !.activeView = v],
                  overlayAfterSelect(canvasContainer, v), "SelectView")
    /\ UNCHANGED now

(* the controls side bar changes the active control *)
ChangeControl(c) ==
    /\ c # activeControl
    /\ LET p == [Props EXCEPT !.activeControl = c]
       IN  Render(World, p, "ChangeControl")
    /\ UNCHANGED now

(* the frame counter changes (navigation, or a completed frame change) *)
ChangeFrame(f) ==
    /\ f # frameNumber
    /\ LET p == [Props EXCEPT !.frameNumber = f]
       IN  Render(World, p, "ChangeFrame")
    /\ UNCHANGED now

(* the job instance is replaced or the frame rate changes *)
ChangeJob(j, f) ==
    /\ j # job \/ f # fps
    /\ LET p == [Props EXCEPT !.job = j, !.fps = f]
       IN  Render(World, p, "ChangeJob")
    /\ UNCHANGED now

RemoveAt(seq, i) == [k \in 1 .. Len(seq) - 1 |-> IF k < i THEN seq[k] ELSE seq[k + 1]]

(* Mutant of SeqTimer: a rejected play() is not caught, so Promise.all *)
(* rejects and the sequence ends there.                                *)
SeqTimer_Uncaught(i, rejected) ==
    /\ i \in DOMAIN sequences
    /\ sequences[i].pc = "delay"
    /\ LET n == Cardinality(DOMAIN videos)
           started == [sequences EXCEPT ![i] = [@ EXCEPT !.pc = "started",
                                                        !.ops = @ \o ForEachOps("play", n)]]
           w == [World EXCEPT
                   !.videos = [v \in DOMAIN videos |->
                                  IF v \in rejected THEN @[v] ELSE [@[v] EXCEPT !.paused = FALSE]],
                   !.sequences = IF rejected = {} THEN started ELSE RemoveAt(@, i),
                   !.log = [v \in 1 .. n |-> IF v \in rejected THEN "play failed" ELSE "play"]]
       IN  Becomes(Props, w, "SeqTimer")
    /\ UNCHANGED now

(* playAllVideos after the 50 ms timer: video.play() on every element; the *)
(* elements in `rejected` refuse (the promise rejects and is caught, which *)
(* logs 'Play failed')                                                     *)
SeqTimer(i, rejected) ==
    /\ i \in DOMAIN sequences
    /\ sequences[i].pc = "delay"
    /\ LET n == Cardinality(DOMAIN videos)
           w == [World EXCEPT
                   !.videos = [v \in DOMAIN videos |->
                                  IF v \in rejected THEN @[v] ELSE [@[v] EXCEPT !.paused = FALSE]],
                   !.sequences[i] = [@ EXCEPT !.pc = "started",
                                               !.ops = @ \o ForEachOps("play", n)],
                   !.log = [v \in 1 .. n |-> IF v \in rejected THEN "play failed" ELSE "play"]]
       IN  Becomes(Props, w, "SeqTimer")
    /\ UNCHANGED now

(* Mutant of unmuteActive: the view captured when the sequence began. *)
unmuteActive_Everyone(w, s, view) ==
    [w EXCEPT !.videos = [v \in ViewsOf(w) |-> [@[v] EXCEPT !.muted = FALSE]]]

unmuteActive_StartView(w, s, view) == muteByActiveCell(w, s.startView)

(* playAllVideos, last step: unmute only the element of the active cell *)
unmuteActive(w, s, view) == muteByActiveCell(w, view)

(* playAllVideos after Promise.all: unmute, return; then startSyncInterval *)
(* (which does nothing)                                                    *)
SeqFinish(i) ==
    /\ i \in DOMAIN sequences
    /\ sequences[i].pc = "started"
    /\ LET n == Cardinality(DOMAIN videos)
           s == sequences[i]
           w1 == unmuteActive(World, s, activeView)
           w == [w1 EXCEPT
                   !.sequences = RemoveAt(@, i),
                   !.finished = [ops |-> s.ops \o ForEachOps("unmute", n),
                                 startView |-> s.startView]]
       IN  Becomes(Props, w, "SeqFinish")
    /\ UNCHANGED now

(* playing media advance *)
advance(w, p) ==
    [w EXCEPT !.videos = [v \in ViewsOf(w) |->
        IF ~@[v].paused /\ @[v].currentTime + TickMs <= Duration(p.job, p.fps)
        THEN [@[v] EXCEPT !.currentTime = @ + TickMs] ELSE @[v]]]

VideosAdvance ==
    /\ \E v \in DOMAIN videos :
          ~videos[v].paused /\ videos[v].currentTime + TickMs <= Duration(job, fps)
    /\ Becomes(Props, advance(World, Props), "VideosAdvance")
    /\ UNCHANGED now

(* Mutant of updateFrame: the throttle condition is missing. *)
updateFrame_NoThrottle(w, p, t) ==
    LET primaryVideo == w.videos[1]
        d == w.drive
        newFrame == candidateFrame(primaryVideo.currentTime, p.fps)
        shouldDispatch == newFrame # d.lastDispatchedFrame /\ ~d.pendingDispatch
        obs == [ticked |-> ~primaryVideo.paused, cand |-> newFrame,
                proposed |-> ~primaryVideo.paused /\ shouldDispatch,
                prevFrame |-> w.lastFrameRef, prevTime |-> w.run.since,
                outstanding |-> Len(w.inflight)]
    IN  IF primaryVideo.paused THEN [w EXCEPT !.tickObs = obs]
        ELSE IF shouldDispatch
        THEN [w EXCEPT
                !.drive = [alive |-> TRUE, lastDispatchedFrame |-> newFrame,
                           lastDispatchTime |-> t, pendingDispatch |-> TRUE],
                !.lastFrameRef = newFrame,
                !.inflight = Append(@, [frame |-> Min(newFrame + p.job.startFrame,
                                                      p.job.stopFrame), own |-> TRUE]),
                !.tickObs = obs,
                !.run = [@ EXCEPT !.cands = Append(@, newFrame),
                                  !.props = Append(@, newFrame), !.since = t]]
        ELSE [w EXCEPT !.tickObs = obs, !.run.cands = Append(@, newFrame)]

(* updateFrame, the requestAnimationFrame callback of the live activation, *)
(* at time t                                                               *)
updateFrame(w, p, t) ==
    LET primaryVideo == w.videos[1]
        d == w.drive
        newFrame == candidateFrame(primaryVideo.currentTime, p.fps)
        shouldDispatch == /\ newFrame # d.lastDispatchedFrame
                          /\ t - d.lastDispatchTime >= THROTTLE_MS
                          /\ ~d.pendingDispatch
        obs == [ticked |-> ~primaryVideo.paused, cand |-> newFrame,
                proposed |-> ~primaryVideo.paused /\ shouldDispatch,
                prevFrame |-> w.lastFrameRef, prevTime |-> w.run.since,
                outstanding |-> Len(w.inflight)]
    IN  IF primaryVideo.paused THEN [w EXCEPT !.tickObs = obs]
        ELSE IF shouldDispatch
        THEN [w EXCEPT
                !.drive = [alive |-> TRUE, lastDispatchedFrame |-> newFrame,
                           lastDispatchTime |-> t, pendingDispatch |-> TRUE],
                !.lastFrameRef = newFrame,
                !.inflight = Append(@, [frame |-> Min(newFrame + p.job.startFrame,
                                                      p.job.stopFrame), own |-> TRUE]),
                !.tickObs = obs,
                !.run = [@ EXCEPT !.cands = Append(@, newFrame),
                                  !.props = Append(@, newFrame), !.since = t]]
        ELSE [w EXCEPT !.tickObs = obs, !.run.cands = Append(@, newFrame)]

(* an animation frame, TickMs after the previous one: playing media have *)
(* advanced, and the live activation's updateFrame runs                  *)
Tick ==
    /\ now < ClockStart + MaxTicks * TickMs
    /\ drive.alive => Len(inflight) < MaxInflight
    /\ now' = now + TickMs
    /\ LET w0 == advance(World, Props)
           w == IF drive.alive THEN updateFrame(w0, Props, now + TickMs) ELSE w0
       IN  Becomes(Props, w, "Tick")

(* Mutant of Settle: the flag is cleared in then(), not in finally(). *)
Settle_ThenOnly(i, fulfilled) ==
    /\ i \in DOMAIN inflight
    /\ LET f == inflight[i]
           w0 == [World EXCEPT
                    !.inflight = RemoveAt(@, i),
                    !.drive.pendingDispatch = IF f.own /\ fulfilled THEN FALSE ELSE @]
           p == IF fulfilled THEN [Props EXCEPT !.frameNumber = f.frame] ELSE Props
       IN  Render(w0, p, "Settle")
    /\ UNCHANGED now

(* a changeFrameAsync dispatch settles: the Player has the proposed frame *)
(* (fulfilled) or keeps its frame (rejected); finally() runs              *)
Settle(i, fulfilled) ==
    /\ i \in DOMAIN inflight
    /\ LET f == inflight[i]
           w0 == [World EXCEPT
                    !.inflight = RemoveAt(@, i),
                    !.drive.pendingDispatch = IF f.own THEN FALSE ELSE @]
           p == IF fulfilled THEN [Props EXCEPT !.frameNumber = f.frame] ELSE Props
       IN  Render(w0, p, "Settle")
    /\ UNCHANGED now

(* Mutant of SpectrogramClick: the target frame is not clamped to stopFrame. *)
SpectrogramClick_Unclamped(x) ==
    /\ ~playing
    /\ Len(inflight) < MaxInflight
    /\ x \in 0 .. 4
    /\ LET duration == Duration(job, fps) + MsPerSecond \div fps
           targetFrame == (x * duration * fps) \div (4 * MsPerSecond) + job.startFrame
       IN  Becomes(Props, [World EXCEPT !.inflight = Append(@, [frame |-> targetFrame,
                                                                own |-> FALSE])],
                   "SpectrogramClick")
    /\ UNCHANGED now

(* handleCanvasClick of the spectrogram panel while the Player is paused, *)
(* at x quarters of the canvas width: the frame at that share of the      *)
(* audio's duration, which ends one frame interval after the last frame's *)
(* time, is proposed with changeFrameAsync                                *)
SpectrogramClick(x) ==
    /\ ~playing
    /\ Len(inflight) < MaxInflight
    /\ x \in 0 .. 4
    /\ LET duration == Duration(job, fps) + MsPerSecond \div fps
           targetFrame == (x * duration * fps) \div (4 * MsPerSecond) + job.startFrame
           clampedFrame == Min(targetFrame, job.stopFrame)
       IN  Becomes(Props, [World EXCEPT !.inflight = Append(@, [frame |-> clampedFrame,
                                                                own |-> FALSE])],
                   "SpectrogramClick")
    /\ UNCHANGED now

(* the master element reaches its end: it pauses itself and fires 'ended', *)
(* handleEnded dispatches switchPlay(false)                                *)
MasterEnded ==
    /\ drive.alive
    /\ ~videos[1].paused
    /\ videos[1].currentTime + TickMs > Duration(job, fps)
    /\ LET w0 == [World EXCEPT !.videos[1].paused = TRUE]
       IN  Render(w0, [Props EXCEPT !.playing = FALSE], "MasterEnded")
    /\ UNCHANGED now

(* ---- steps of the wrapper and the surface -------------------------------- *)

(* the active view's overlay reports its element, or null: setCanvasContainer *)
ContainerReady(container) ==
    /\ canvasInstance
    /\ container \in {NoContainer, activeView}
    /\ container # canvasContainer
    /\ RenderAll(World, CanvasWorld, Props, container, states, NoDetail, "ContainerReady")
    /\ UNCHANGED now

(* the controls side bar arms a draw tool: canvasInstance.draw(), then the *)
(* active control becomes the draw control                                 *)
ArmDraw(control) ==
    /\ canvasInstance
    /\ canvasParent # NoContainer
    /\ control \in DRAW_ACTIVE_CONTROLS
    /\ control # activeControl
    /\ RenderAll(World, canvasDraw(CanvasWorld), [Props EXCEPT !.activeControl = control],
                 canvasContainer, states, NoDetail, "ArmDraw")
    /\ UNCHANGED now

(* the user starts zooming or dragging the image on the surface on display: *)
(* the surface enters the mode and emits canvas.zoomstart / canvas.dragstart, *)
(* onCanvasZoomStart / onCanvasDragStart dispatch the control of that name    *)
CanvasModeStart(mode) ==
    /\ canvasInstance
    /\ listeners
    /\ canvasContainer # NoContainer
    /\ canvasParent = canvasContainer
    /\ canvas.mode = IDLE
    /\ mode \in {"zoom_canvas", "drag_canvas"}
    /\ RenderAll(World, [CanvasWorld EXCEPT !.canvas.mode = mode],
                 [Props EXCEPT !.activeControl = mode], canvasContainer, states,
                 NoDetail, "CanvasModeStart")
    /\ UNCHANGED now

(* the user starts a shape on the armed surface, on display in the overlay *)
BeginShape ==
    /\ canvasInstance
    /\ canvasContainer # NoContainer
    /\ canvasParent = canvasContainer
    /\ canvas.mode \in DRAW_MODES
    /\ ~canvas.gesture
    /\ RenderAll(World, [CanvasWorld EXCEPT !.canvas.gesture = TRUE], Props,
                 canvasContainer, states, NoDetail, "BeginShape")
    /\ UNCHANGED now

labelOf(detail) ==
    LET foundLabel == IF \E i \in DOMAIN jobLabels : jobLabels[i] = drawingStore.activeLabelID
                      THEN drawingStore.activeLabelID ELSE Undefined
        fallbackLabel == IF jobLabels = <<>> THEN Undefined ELSE jobLabels[1]
    IN  IF detail.label # Undefined THEN detail.label
        ELSE IF foundLabel # Undefined THEN foundLabel
        ELSE fallbackLabel

(* Mutant of onCanvasShapeDrawn: the label is not checked before the create. *)
onCanvasShapeDrawn_NoLabelCheck(c, refs, detail) ==
    LET c1 == IF ~detail.continue THEN dispatchControl(c, CURSOR) ELSE c
        objectType == IF detail.mask THEN "shape"
                      ELSE IF detail.objectType # "none" THEN detail.objectType
                      ELSE drawingStore.activeObjectType
        state == [objectType |-> objectType, frame |-> refs.frameNumber,
                  viewId |-> refs.activeViewId, isGroundTruth |-> FALSE,
                  points |-> 0, description |-> "", needs_review |-> FALSE]
    IN  [c1 EXCEPT !.creating = Append(@, state),
                   !.calls = Append(@, Call("create", state.viewId, state.frame,
                                            <<state>>))]

(* Mutant of onCanvasShapeDrawn: the shape is stamped with the values of the *)
(* render the callback was created in instead of those of stateRefs.         *)
onCanvasShapeDrawn_RenderClosure(c, refs, detail) ==
    LET c1 == IF ~detail.continue THEN dispatchControl(c, CURSOR) ELSE c
        objectType == IF detail.mask THEN "shape"
                      ELSE IF detail.objectType # "none" THEN detail.objectType
                      ELSE drawingStore.activeObjectType
        state == [objectType |-> objectType, frame |-> 0, viewId |-> 1,
                  isGroundTruth |-> FALSE, points |-> 0, description |-> "",
                  needs_review |-> FALSE]
    IN  IF labelOf(detail) = Undefined
        THEN c1
        ELSE [c1 EXCEPT !.creating = Append(@, state),
                        !.calls = Append(@, Call("create", state.viewId, state.frame,
                                                 <<state>>))]

(* onCanvasShapeDrawn; refs is stateRefs.current *)
onCanvasShapeDrawn(c, refs, detail) ==
    LET c1 == IF ~detail.continue THEN dispatchControl(c, CURSOR) ELSE c
        objectType == IF detail.mask THEN "shape"
                      ELSE IF detail.objectType # "none" THEN detail.objectType
                      ELSE drawingStore.activeObjectType
        state == [objectType |-> objectType, frame |-> refs.frameNumber,
                  viewId |-> refs.activeViewId, isGroundTruth |-> FALSE,
                  points |-> 0, description |-> "", needs_review |-> FALSE]
    IN  IF labelOf(detail) = Undefined
        THEN c1
        ELSE [c1 EXCEPT !.creating = Append(@, state),
                        !.calls = Append(@, Call("create", state.viewId, state.frame,
                                                 <<state>>))]

(* the surface completes the shape and emits canvas.drawn *)
ShapeDrawn(detail) ==
    /\ canvasInstance
    /\ listeners
    /\ canvas.mode \in DRAW_MODES
    /\ canvas.gesture
    /\ Len(states) + Len(creating) < MaxAnnotations
    /\ LET c0 == [CanvasWorld EXCEPT !.canvas.gesture = FALSE,
                                     !.canvas.mode = IF detail.continue THEN @ ELSE IDLE]
           c1 == onCanvasShapeDrawn(c0, stateRefs, detail)
       IN  RenderAll(World, c1, [Props EXCEPT !.activeControl = c1.control],
                     canvasContainer, states, detail, "ShapeDrawn")
    /\ UNCHANGED now

(* onCanvasCancel *)
onCanvasCancel(c) == dispatchControl(c, CURSOR)

(* the user cancels the gesture on the surface, which emits canvas.canceled *)
CancelDraw ==
    /\ canvasInstance
    /\ listeners
    /\ canvas.mode \in DRAW_MODES
    /\ LET c0 == [CanvasWorld EXCEPT !.canvas.gesture = FALSE, !.canvas.mode = IDLE]
           c1 == onCanvasCancel(c0)
       IN  RenderAll(World, c1, [Props EXCEPT !.activeControl = c1.control],
                     canvasContainer, states, NoDetail, "CancelDraw")
    /\ UNCHANGED now

(* createAnnotationsAsync settles: the store holds the new annotation, or the *)
(* creation failed                                                            *)
CreateSettled(fulfilled) ==
    /\ creating # <<>>
    /\ RenderAll(World, [CanvasWorld EXCEPT !.creating = Tail(@)], Props, canvasContainer,
                 IF fulfilled THEN Append(states, Head(creating)) ELSE states,
                 NoDetail, "CreateSettled")
    /\ UNCHANGED now

(* the store's annotation list is replaced (annotations fetched for a frame, *)
(* or after an update or removal): the wrapper renders with the new list    *)
AnnotationsFetched(list) ==
    /\ canvasInstance
    /\ list # states
    /\ RenderAll(World, CanvasWorld, Props, canvasContainer, list, NoDetail,
                 "AnnotationsFetched")
    /\ UNCHANGED now

(* the user grabs a shape the surface shows, to move, resize or reshape it *)
BeginEdit(i, mode) ==
    /\ canvasInstance
    /\ canvasContainer # NoContainer
    /\ canvasParent = canvasContainer
    /\ canvas.mode = IDLE
    /\ mode \in {"edit", "drag", "resize"}
    /\ i \in DOMAIN states
    /\ LET list == canvasSetup(CanvasWorld, stateRefs).calls[1].list
       IN  \E k \in DOMAIN list : list[k] = states[i]
    /\ RenderAll(World, [CanvasWorld EXCEPT !.canvas.mode = mode, !.canvas.gesture = TRUE],
                 Props, canvasContainer, states, NoDetail, "BeginEdit")
    /\ UNCHANGED now

(* the user releases the shape and the surface emits canvas.edited:        *)
(* onCanvasEditDone writes points and rotation into the state and          *)
(* dispatches updateAnnotationsAsync, after which the store holds the list *)
(* with the state as written                                               *)
EditDone(i, points) ==
    /\ canvasInstance
    /\ listeners
    /\ canvas.mode \in {"edit", "drag", "resize"}
    /\ canvas.gesture
    /\ i \in DOMAIN states
    /\ points # states[i].points
    /\ LET list == canvasSetup(CanvasWorld, stateRefs).calls[1].list
       IN  \E k \in DOMAIN list : list[k] = states[i]
    /\ RenderAll(World, [CanvasWorld EXCEPT !.canvas.mode = IDLE, !.canvas.gesture = FALSE],
                 Props, canvasContainer, [states EXCEPT ![i].points = points],
                 NoDetail, "EditDone")
    /\ UNCHANGED now

(* Mutant of DescriptionChange: the handler also stamps the active view. *)
DescriptionChange_Restamp(i, text) ==
    /\ i \in DOMAIN states
    /\ text # states[i].description
    /\ RenderAll(World, CanvasWorld, Props, canvasContainer,
                 [states EXCEPT ![i].description = text, ![i].viewId = activeView],
                 NoDetail, "DescriptionChange")
    /\ UNCHANGED now

(* objects list, handleDescriptionChange on the selected annotation *)
DescriptionChange(i, text) ==
    /\ i \in DOMAIN states
    /\ text # states[i].description
    /\ RenderAll(World, CanvasWorld, Props, canvasContainer,
                 [states EXCEPT ![i].description = text], NoDetail, "DescriptionChange")
    /\ UNCHANGED now

(* objects list, handleNeedsReviewChange on the selected annotation *)
NeedsReviewChange(i, checked) ==
    /\ i \in DOMAIN states
    /\ checked # states[i].needs_review
    /\ RenderAll(World, CanvasWorld, Props, canvasContainer,
                 [states EXCEPT ![i].needs_review = checked], NoDetail, "NeedsReviewChange")
    /\ UNCHANGED now

(* ---- initial states ------------------------------------------------------ *)

FilterIdle ==
    /\ fAnnotations = <<>>
    /\ fParams = [workspace |-> "MULTIVIEW", exclude |-> NoList, include |-> NoList,
                  frame |-> Undefined, viewId |-> Undefined]
    /\ fStore = [hasMeta |-> FALSE, startFrame |-> 0, dataStart |-> 0, frameStep |-> 1,
                 includedFrames |-> {Undefined}]
    /\ fResult = [threw |-> FALSE, list |-> <<>>]
    /\ fSetupList = <<>>
    /\ fDone = FALSE

(* The cells of the grid: five, written out one by one. *)
GridCells == 1 .. 5

(* MultiviewVideoGrid: the cells it renders. Unless view1 .. view5 all have a *)
(* url it returns the loading notice and no cell; otherwise the five cells,   *)
(* whatever else the task holds.                                              *)
MultiviewVideoGrid(data) == IF GridCells \subseteq data THEN GridCells ELSE {}

(* a task whose views are the grid's cells *)
GridIdle == multiviewData = GridCells

(* frame data of the task's declared size, no video metadata loaded yet *)
FrameIdle ==
    /\ frameData = [present |-> TRUE, width |-> 4, height |-> 3]
    /\ videoDimensions = [width |-> 0, height |-> 0]
    /\ effectiveFrameData = frameData
    /\ proxied = FALSE
    /\ videoSize = [v \in Views |-> [width |-> 0, height |-> 0]]
    /\ setupData = <<>>

(* The workspace after its first commit, paused on frame f0 with n views: the *)
(* mount effects have paused the elements and seeked them to the frame.       *)
WorkspaceMounted(n, j, f, f0) ==
    /\ playing = FALSE
    /\ frameNumber = f0
    /\ job = j
    /\ fps = f
    /\ activeView = 1
    /\ activeControl = CURSOR
    /\ playingRef = FALSE
    /\ frameNumberRef = f0
    /\ prevActiveControlRef = CURSOR
    /\ lastFrameRef = Undefined
    /\ videos = [v \in 1 .. n |->
                    [currentTime |-> frameTime(f0, j, f), paused |-> TRUE, muted |-> (v # 1)]]
    /\ sequences = <<>>
    /\ drive = NoClosure
    /\ inflight = <<>>
    /\ now = ClockStart
    /\ last = "init"
    /\ log = <<>>
    /\ seeked = {}
    /\ finished = NoFinished
    /\ tickObs = NoTick
    /\ run = NoRun
    /\ ended = FALSE

(* No canvas instance in the store: every effect of the wrapper returns early. *)
CanvasIdle ==
    /\ canvasInstance = FALSE
    /\ canvas = [mode |-> IDLE, gesture |-> FALSE, viewId |-> 1]
    /\ canvasContainer = NoContainer
    /\ canvasParent = NoContainer
    /\ listeners = FALSE
    /\ mountedRef = FALSE
    /\ prevViewIdRef = NoContainer
    /\ states = <<>>
    /\ creating = <<>>
    /\ jobLabels = <<>>
    /\ drawingStore = [activeLabelID |-> Undefined, activeObjectType |-> "shape"]
    /\ calls = <<>>
    /\ withheld = FALSE
    /\ before = NoBefore

(* The wrapper after its first commit, before an overlay has reported its *)
(* element: the view-change effect has recorded the first view.           *)
WrapperMounted ==
    /\ canvasInstance = TRUE
    /\ canvas = [mode |-> IDLE, gesture |-> FALSE, viewId |-> 1]
    /\ canvasContainer = NoContainer
    /\ canvasParent = NoContainer
    /\ listeners = FALSE
    /\ mountedRef = FALSE
    /\ prevViewIdRef = 1
    /\ states = <<>>
    /\ creating = <<>>
    /\ jobLabels \in {<<>>, <<1, 2>>}
    /\ drawingStore \in [activeLabelID : {Undefined, 2}, activeObjectType : {"shape"}]
    /\ jobLabels = <<>> => drawingStore.activeLabelID = Undefined
    /\ calls = <<>>
    /\ withheld = FALSE
    /\ before = NoBefore

PlayIdle == WorkspaceMounted(1, [id |-> 1, startFrame |-> 0, stopFrame |-> MaxFrame], 25, 0)

FilterSpecInit ==
    /\ FilterInit
    /\ FrameIdle
    /\ GridIdle
    /\ PlayIdle
    /\ CanvasIdle

SpecFilter == FilterSpecInit /\ [][FilterNext]_vars

(* ---- SpecSequence: play / pause, the play sequence and the mute effect ---- *)
(* ---- under view selection, over NViews views                           ---- *)
SyncJob == [id |-> 1, startFrame |-> 0, stopFrame |-> MaxFrame]
ScenarioFps == MsPerSecond \div (2 * TickMs)

SequenceInit ==
    /\ FilterIdle
    /\ FrameIdle
    /\ GridIdle
    /\ CanvasIdle
    /\ WorkspaceMounted(NViews, SyncJob, ScenarioFps, 0)

SequenceNext ==
    \/ Play
    \/ Pause
    \/ \E v \in Views : SelectView(v)
    \/ \E i \in 1 .. MaxSequences : \E r \in SUBSET Views : SeqTimer(i, r)
    \/ \E i \in 1 .. MaxSequences : SeqFinish(i)

SpecSequence == SequenceInit /\ [][SequenceNext]_vars

(* ---- SpecSeek: play / pause, auto-pause and the seek effect under frame ---- *)
(* ---- changes and advancing media, over NViews views; a play transition ---- *)
(* ---- follows the end of the previous play sequence                     ---- *)
SeekInit ==
    /\ FilterIdle
    /\ FrameIdle
    /\ GridIdle
    /\ CanvasIdle
    /\ \E f \in FpsValues : WorkspaceMounted(NViews, SyncJob, f, 0)

SeekNext ==
    \/ (sequences = <<>> /\ Play)
    \/ Pause
    \/ \E c \in ActiveControls : ChangeControl(c)
    \/ \E f \in Frames : ChangeFrame(f)
    \/ \E i \in 1 .. MaxSequences : \E r \in SUBSET Views : SeqTimer(i, r)
    \/ \E i \in 1 .. MaxSequences : SeqFinish(i)
    \/ VideosAdvance

SpecSeek == SeekInit /\ [][SeekNext]_vars

(* ---- SpecDrive: the frame-drive effect over the master element; a play ---- *)
(* ---- transition follows the end of the previous play sequence, and the ---- *)
(* ---- user seeks while paused                                            ---- *)
(* the frame before the first candidate of a run 10, 10, 11, 11, 12 *)
ScenarioFrame == 10 - 1
DriveStopFrame == ScenarioFrame + 2 + MaxFrame
DriveJobs == { [id |-> i, startFrame |-> 0, stopFrame |-> DriveStopFrame] : i \in 1 .. 2 }

DriveInit ==
    /\ FilterIdle
    /\ FrameIdle
    /\ GridIdle
    /\ CanvasIdle
    /\ WorkspaceMounted(1, [id |-> 1, startFrame |-> 0, stopFrame |-> DriveStopFrame],
                        ScenarioFps, ScenarioFrame)

DriveNext ==
    \/ (sequences = <<>> /\ Play)
    \/ Pause
    \/ \E j \in DriveJobs : ChangeJob(j, fps)
    \/ (~playing /\ ChangeFrame(ScenarioFrame))
    \/ \E i \in 1 .. MaxSequences : \E r \in SUBSET {1} : SeqTimer(i, r)
    \/ \E i \in 1 .. MaxSequences : SeqFinish(i)
    \/ Tick
    \/ \E i \in 1 .. MaxInflight : \E ok \in BOOLEAN : Settle(i, ok)
    \/ MasterEnded

SpecDrive == DriveInit /\ [][DriveNext]_vars

(* ---- SpecClick: the proposals of the frame-drive effect and of clicks on  ---- *)
(* ---- the spectrogram at its left and right edge, made with no proposal    ---- *)
(* ---- outstanding, every proposal fulfilled,                                ---- *)
(* ---- in a job that starts at frame 0 and, opened while paused, in one that ---- *)
(* ---- starts at frame 1                                                      ---- *)
ClickNext ==
    \/ (sequences = <<>> /\ Play)
    \/ Pause
    \/ (/\ ~playing /\ sequences = <<>> /\ inflight = <<>>
        /\ ChangeJob([id |-> 2, startFrame |-> 1, stopFrame |-> DriveStopFrame], fps))
    \/ SeqTimer(1, {})
    \/ SeqFinish(1)
    \/ Tick
    \/ Settle(1, TRUE)
    \/ MasterEnded
    \/ \E x \in {0, 4} : (inflight = <<>> /\ SpectrogramClick(x))

SpecClick == DriveInit /\ [][ClickNext]_vars

(* ---- SpecCanvas: the canvas wrapper under view selection, frame changes, ---- *)
(* ---- drawing and annotation creation, the workspace paused and the user  ---- *)
(* ---- moving between the first and the last frame                         ---- *)
CanvasInit ==
    /\ FilterIdle
    /\ FrameIdle
    /\ GridIdle
    /\ WorkspaceMounted(NViews, SyncJob, ScenarioFps, 0)
    /\ WrapperMounted

CanvasNext ==
    \/ \E v \in Views : SelectView(v)
    \/ \E f \in {0, MaxFrame} : ChangeFrame(f)
    \/ \E c \in {NoContainer} \cup Views : ContainerReady(c)
    \/ ArmDraw("draw_rectangle")
    \/ BeginShape
    \/ \E d \in ShapeDetails : ShapeDrawn(d)
    \/ CancelDraw
    \/ \E ok \in BOOLEAN : CreateSettled(ok)
    \/ \E mode \in {"zoom_canvas", "drag_canvas"} : CanvasModeStart(mode)

SpecCanvas == CanvasInit /\ [][CanvasNext]_vars

(* ---- SpecEdit: the wrapper and the objects list under drawing, creation, ---- *)
(* ---- edits of existing annotations, view selection and frame changes;    ---- *)
(* ---- the activated annotation is the first one created                   ---- *)
EditInit ==
    /\ CanvasInit
    /\ jobLabels # <<>>
    /\ drawingStore.activeLabelID # Undefined

EditNext ==
    \/ \E v \in Views : SelectView(v)
    \/ \E f \in {0, MaxFrame} : ChangeFrame(f)
    \/ \E c \in {NoContainer} \cup Views : ContainerReady(c)
    \/ ArmDraw("draw_rectangle")
    \/ BeginShape
    \/ \E d \in ShapeDetails : (~d.continue /\ ShapeDrawn(d))
    \/ CreateSettled(TRUE)
    \/ BeginEdit(1, "resize")
    \/ \E points \in {0, 1} : EditDone(1, points)
    \/ \E text \in {"", "note"} : DescriptionChange(1, text)
    \/ \E checked \in BOOLEAN : NeedsReviewChange(1, checked)

SpecEdit == EditInit /\ [][EditNext]_vars

(* ---- SpecSetup: the setup calls of the canvas wrapper over annotation    ---- *)
(* ---- lists the store already holds, under view selection, frame changes, ---- *)
(* ---- arming and cancelling a draw tool, and replaced lists               ---- *)
(* annotations of the store: one without viewId, a shape of the last view on *)
(* the last frame, a tag, and a track whose frame field is the first frame   *)
StoredStates ==
    { [objectType |-> "shape", frame |-> 0, viewId |-> Undefined, isGroundTruth |-> FALSE,
       points |-> 0, description |-> "", needs_review |-> FALSE],
      [objectType |-> "shape", frame |-> MaxFrame, viewId |-> NViews, isGroundTruth |-> FALSE,
       points |-> 0, description |-> "", needs_review |-> FALSE],
      [objectType |-> "tag", frame |-> 0, viewId |-> 1, isGroundTruth |-> FALSE,
       points |-> 0, description |-> "", needs_review |-> FALSE],
      [objectType |-> "track", frame |-> 0, viewId |-> 1, isGroundTruth |-> FALSE,
       points |-> 0, description |-> "", needs_review |-> FALSE] }

StoredLists == UNION { [1 .. n -> StoredStates] : n \in 0 .. MaxAnnotations }

(* The wrapper after its first commit over a store that holds annotations. *)
WrapperLoaded ==
    /\ canvasInstance = TRUE
    /\ canvas = [mode |-> IDLE, gesture |-> FALSE, viewId |-> 1]
    /\ canvasContainer = NoContainer
    /\ canvasParent = NoContainer
    /\ listeners = FALSE
    /\ mountedRef = FALSE
    /\ prevViewIdRef = 1
    /\ states \in StoredLists
    /\ creating = <<>>
    /\ jobLabels = <<>>
    /\ drawingStore = [activeLabelID |-> Undefined, activeObjectType |-> "shape"]
    /\ calls = <<>>
    /\ withheld = FALSE
    /\ before = NoBefore

SetupInit ==
    /\ FilterIdle
    /\ FrameIdle
    /\ GridIdle
    /\ WorkspaceMounted(NViews, SyncJob, ScenarioFps, 0)
    /\ WrapperLoaded

SetupNext ==
    \/ \E v \in Views : SelectView(v)
    \/ \E f \in {0, MaxFrame} : ChangeFrame(f)
    \/ \E c \in {NoContainer} \cup Views : ContainerReady(c)
    \/ ArmDraw("draw_rectangle")
    \/ CancelDraw
    \/ \E list \in StoredLists : AnnotationsFetched(list)

SpecSetup == SetupInit /\ [][SetupNext]_vars

(* ---- SpecFrameData: createVideoFrameDataProxy over task frame sizes and ---- *)
(* ---- video sizes of aspect 4:3 and 16:9                                  ---- *)
NoFrameData == [present |-> FALSE, width |-> 0, height |-> 0]
FrameDatas ==
    {NoFrameData} \cup
    { [present |-> TRUE, width |-> d[1], height |-> d[2]] : d \in { <<4, 3>>, <<8, 6>>, <<16, 9>> } }

(* createVideoFrameDataProxy: the proxy answers width / height with the video's *)
(* and delegates everything else                                               *)
createVideoFrameDataProxy(originalFrameData, videoWidth, videoHeight) ==
    IF ~originalFrameData.present \/ videoWidth <= 0 \/ videoHeight <= 0
    THEN originalFrameData
    ELSE [originalFrameData EXCEPT !.width = videoWidth, !.height = videoHeight]

FrameDataInit ==
    /\ FilterIdle
    /\ PlayIdle
    /\ GridIdle
    /\ CanvasIdle
    /\ frameData \in FrameDatas
    /\ videoDimensions \in [width : {0, 4, 8, 16}, height : {0, 3, 6, 9}]
    /\ effectiveFrameData = NoFrameData
    /\ proxied = FALSE
    /\ videoSize = [v \in Views |-> [width |-> 0, height |-> 0]]
    /\ setupData = <<>>

(* effectiveFrameData of the setup effect and of the initial setup *)
CallProxy ==
    /\ ~proxied
    /\ effectiveFrameData' = createVideoFrameDataProxy(frameData, videoDimensions.width,
                                                       videoDimensions.height)
    /\ proxied' = TRUE
    /\ UNCHANGED <<frameData, videoDimensions, videoSize, setupData>>

FrameDataNext == CallProxy /\ UNCHANGED <<filterVars, playVars, canvasVars, gridVars>>

SpecFrameData == FrameDataInit /\ [][FrameDataNext]_vars

(* ---- SpecDimensions: the wrapper's videoDimensions state and the frame   ---- *)
(* ---- data of its setup calls, under view selection, the overlay's report ---- *)
(* ---- of container and video element, and the elements' metadata loading  ---- *)
(* ---- in any order; the surface is idle and the control is the cursor     ---- *)
(* effect [videoElement]: videoDimensions after it ran for the element of  *)
(* view `element`, 0 for null; updateDimensions sets the state only for a  *)
(* positive videoWidth and videoHeight                                     *)
videoDimensionsEffect(dims, element) ==
    IF element = NoContainer
    THEN [width |-> 0, height |-> 0]
    ELSE IF videoSize[element].width > 0 /\ videoSize[element].height > 0
    THEN videoSize[element]
    ELSE dims

(* what the steps of the dimensions leave alone *)
DimensionsOnly ==
    /\ UNCHANGED <<filterVars, gridVars>>
    /\ UNCHANGED <<playing, frameNumber, job, fps, activeControl,
                   playingRef, frameNumberRef, prevActiveControlRef, lastFrameRef,
                   videos, sequences, drive, inflight, now,
                   last, log, seeked, finished, tickObs, run, ended>>
    /\ UNCHANGED <<canvasInstance, canvas, canvasParent, listeners, mountedRef,
                   prevViewIdRef, states, creating, jobLabels, drawingStore, calls, before,
                   withheld>>

(* a setup call of a render whose videoDimensions is dims *)
SetupWith(viewId, dims) ==
    [viewId |-> viewId,
     data |-> createVideoFrameDataProxy(frameData, dims.width, dims.height)]

(* The commits that follow a report of the overlay (the container and the  *)
(* video element of view `element`, or null) while `view` is active: the   *)
(* dimensions effect and the initial setup of the mount effect run in the  *)
(* render that still has the old videoDimensions; the setup effect runs in *)
(* the re-render that setVideoDimensions causes.                           *)
elementCommits(done, view, element) ==
    IF element = canvasContainer
    THEN done
    ELSE LET dims == videoDimensionsEffect(videoDimensions, element)
         IN  done
             \o (IF element # NoContainer THEN <<SetupWith(view, videoDimensions)>> ELSE <<>>)
             \o (IF element # NoContainer /\ dims # videoDimensions
                 THEN <<SetupWith(view, dims)>> ELSE <<>>)

(* the overlay of the active view reports its container and video element, *)
(* or null for both (handleCanvasContainerReady)                           *)
VideoElementReady(element) ==
    /\ element \in {NoContainer, activeView}
    /\ element # canvasContainer
    /\ canvasContainer' = element
    /\ videoDimensions' = videoDimensionsEffect(videoDimensions, element)
    /\ setupData' = elementCommits(<<>>, activeView, element)
    /\ effectiveFrameData' = IF setupData' = <<>> THEN effectiveFrameData
                             ELSE setupData'[Len(setupData')].data
    /\ UNCHANGED <<frameData, proxied, videoSize, activeView>>
    /\ DimensionsOnly

(* a view is selected: the commit of the new activeViewId runs the mount  *)
(* effect and the setup effect with the video element of the previous     *)
(* view, then the overlay of the new view reports                         *)
ViewSelected(v) ==
    /\ v # activeView
    /\ activeView' = v
    /\ canvasContainer' = overlayAfterSelect(canvasContainer, v)
    /\ videoDimensions' = IF canvasContainer = NoContainer THEN videoDimensions
                          ELSE videoDimensionsEffect(videoDimensions, v)
    /\ setupData' = IF canvasContainer = NoContainer THEN <<>>
                    ELSE elementCommits(<<SetupWith(v, videoDimensions),
                                          SetupWith(v, videoDimensions)>>, v, v)
    /\ effectiveFrameData' = IF setupData' = <<>> THEN effectiveFrameData
                             ELSE setupData'[Len(setupData')].data
    /\ UNCHANGED <<frameData, proxied, videoSize>>
    /\ DimensionsOnly

(* the element of view v fires loadedmetadata: its size is known; the     *)
(* wrapper listens on the element it was handed, and the setup effect     *)
(* runs in the re-render                                                  *)
LoadedMetadata(v, size) ==
    /\ videoSize[v].width = 0
    /\ size.width > 0
    /\ videoSize' = [videoSize EXCEPT ![v] = size]
    /\ videoDimensions' = IF canvasContainer = v THEN size ELSE videoDimensions
    /\ setupData' = IF videoDimensions' # videoDimensions
                    THEN <<SetupWith(activeView, videoDimensions')>> ELSE <<>>
    /\ effectiveFrameData' = IF setupData' = <<>> THEN effectiveFrameData
                             ELSE setupData'[Len(setupData')].data
    /\ UNCHANGED <<frameData, proxied, activeView, canvasContainer>>
    /\ DimensionsOnly

DimensionsInit ==
    /\ FilterIdle
    /\ GridIdle
    /\ WorkspaceMounted(NViews, SyncJob, ScenarioFps, 0)
    /\ WrapperMounted
    /\ jobLabels = <<>>
    /\ frameData = [present |-> TRUE, width |-> 4, height |-> 3]
    /\ videoDimensions = [width |-> 0, height |-> 0]
    /\ effectiveFrameData = frameData
    /\ proxied = FALSE
    /\ videoSize \in [Views -> { [width |-> 0, height |-> 0], [width |-> 4, height |-> 3],
                                  [width |-> 8, height |-> 6], [width |-> 16, height |-> 9] }]
    /\ setupData = <<>>

DimensionsNext ==
    \/ \E v \in Views : ViewSelected(v)
    \/ \E element \in {NoContainer} \cup Views : VideoElementReady(element)
    \/ \E v \in Views :
          \E size \in { [width |-> 4, height |-> 3], [width |-> 8, height |-> 6],
                        [width |-> 16, height |-> 9] } :
             LoadedMetadata(v, size)

SpecDimensions == DimensionsInit /\ [][DimensionsNext]_vars

(* ---- SpecEnded: play / pause and the play sequences around the end of the ---- *)
(* ---- master element's media                                              ---- *)
EndedInit ==
    /\ FilterIdle
    /\ FrameIdle
    /\ GridIdle
    /\ CanvasIdle
    /\ \E f0 \in Frames : WorkspaceMounted(NViews, SyncJob, ScenarioFps, f0)

EndedNext ==
    \/ Play
    \/ Pause
    \/ \E i \in 1 .. MaxSequences : \E r \in SUBSET Views : SeqTimer(i, r)
    \/ \E i \in 1 .. MaxSequences : SeqFinish(i)
    \/ VideosAdvance
    \/ MasterEnded

SpecEnded == EndedInit /\ [][EndedNext]_vars

(* ---- SpecGrid: tasks of MIN_VIEWS .. MAX_VIEWS views in the workspace; the ---- *)
(* ---- cells the grid renders are the elements, a click selects a cell      ---- *)
MIN_VIEWS == 1
MAX_VIEWS == 10

GridInit ==
    /\ FilterIdle
    /\ FrameIdle
    /\ CanvasIdle
    /\ \E viewCount \in MIN_VIEWS .. MAX_VIEWS :
          /\ multiviewData = 1 .. viewCount
          /\ WorkspaceMounted(Cardinality(MultiviewVideoGrid(1 .. viewCount)),
                              SyncJob, ScenarioFps, 0)

GridNext ==
    \/ Play
    \/ Pause
    \/ \E v \in MultiviewVideoGrid(multiviewData) : SelectView(v)
    \/ \E i \in 1 .. MaxSequences : SeqTimer(i, {})
    \/ \E i \in 1 .. MaxSequences : SeqFinish(i)

SpecGrid == GridInit /\ [][GridNext]_vars

Range(seq) == { seq[i] : i \in DOMAIN seq }

(* The call the claims about the view-scoped filter are about: multiview *)
(* workspace, a frame and a view given, no include / exclude list.       *)
ViewScopedCall ==
    /\ fDone
    /\ fParams.workspace = "MULTIVIEW"
    /\ fParams.exclude = NoList /\ fParams.include = NoList
    /\ fParams.frame # Undefined /\ fParams.viewId # Undefined

ViewMatches(a, v) == a.viewId = v \/ (a.viewId = Undefined /\ v = 1)

(* C1 as stated: an annotation is kept iff (its frame is unset or equals f) *)
(* and (its viewId equals v, or its viewId is unset and v = 1).             *)
C1_AsStated ==
    ViewScopedCall =>
        \A a \in Range(fAnnotations) :
            (a \in Range(fResult.list)) <=>
                ( (a.frame = Undefined \/ a.frame = fParams.frame)
                  /\ ViewMatches(a, fParams.viewId) )

(* C1 amended: an annotation is kept iff (it is not of object type SHAPE or *)
(* its frame equals f) and (its viewId equals v, or its viewId is unset and *)
(* v = 1); the list of the setup effect keeps the same annotations except   *)
(* tags; nothing is kept that was not in the input.                         *)
C1_ViewScopedFilter ==
    ViewScopedCall =>
        /\ Range(fResult.list) \subseteq Range(fAnnotations)
        /\ \A a \in Range(fAnnotations) :
            /\ (a \in Range(fResult.list)) <=>
                    ( (a.objectType # "shape" \/ a.frame = fParams.frame)
                      /\ ViewMatches(a, fParams.viewId) )
            /\ (a \in Range(fSetupList)) <=>
                    ( a.objectType # "tag"
                      /\ (a.objectType # "shape" \/ a.frame = fParams.frame)
                      /\ ViewMatches(a, fParams.viewId) )

(* C1 witness: a call that keeps a track of another frame in its own view. *)
C1_Witness ==
    /\ ViewScopedCall
    /\ \E a \in Range(fResult.list) :
          a.objectType = "track" /\ a.frame # Undefined /\ a.frame # fParams.frame

(***************************************************************************)
(* Claims about the canvas wrapper                                         *)
(***************************************************************************)
Creates == SelectSeq(calls, LAMBDA k : k.op = "create")
Issued(name) == \E i \in DOMAIN calls : calls[i].op = name

C3_DrawingSurvivesViewChange ==
    (last = "SelectView" /\ before.drawing) =>
        /\ ~Issued("setup")
        /\ ~Issued("cancel")
        /\ canvas.mode \in DRAW_MODES
        /\ canvas.gesture = before.gesture

(***************************************************************************)
(* Claims about the playback coordinator                                   *)
(***************************************************************************)
TargetTime == frameTime(frameNumber, job, fps)

(* C4: when the frame counter changes while not playing, after the seek    *)
(* step every media element is within half a frame interval of the target  *)
(* time, and every element the step wrote is exactly at the target.        *)
C4_SeekWithinTolerance ==
    (last = "ChangeFrame" /\ ~playing) =>
        /\ \A v \in DOMAIN videos :
              Abs(videos[v].currentTime - TargetTime) <= seekTolerance(fps)
        /\ \A v \in seeked : videos[v].currentTime = TargetTime

(* C4 witness: a frame change while paused that seeks one element and *)
(* leaves another, off the target but within tolerance, alone.        *)
C4_Witness ==
    /\ last = "ChangeFrame" /\ ~playing
    /\ seeked # {}
    /\ \E v \in DOMAIN videos \ seeked : videos[v].currentTime # TargetTime

OpPhase(op) ==
    CASE op \in {"pause", "mute"} -> 1
      [] op = "seek" -> 2
      [] op = "wait" -> 3
      [] op = "play" -> 4
      [] op = "unmute" -> 5

InOrder(ops) ==
    \A i, k \in DOMAIN ops : i < k => OpPhase(ops[i].op) <= OpPhase(ops[k].op)

Performs(ops, name) ==
    \A v \in DOMAIN videos : \E i \in DOMAIN ops : ops[i] = [op |-> name, v |-> v]

(* C5: every play sequence performs its steps in the order pause and mute  *)
(* all, seek all, wait, start all, unmute; a transition to playing starts  *)
(* a sequence that has paused, muted and seeked every element and started  *)
(* none; a sequence that returns has performed every step on every element.*)
C5_PlaySequenceOrder ==
    /\ \A i \in DOMAIN sequences : InOrder(sequences[i].ops)
    /\ last = "Play" =>
          /\ sequences # <<>>
          /\ LET s == sequences[Len(sequences)]
             IN  /\ Performs(s.ops, "pause") /\ Performs(s.ops, "mute")
                 /\ Performs(s.ops, "seek")
                 /\ \A i \in DOMAIN s.ops : s.ops[i].op # "play"
          /\ \A v \in DOMAIN videos : videos[v].paused /\ videos[v].muted
    /\ last = "SeqFinish" =>
          /\ InOrder(finished.ops)
          /\ \A name \in {"pause", "mute", "seek", "play", "unmute"} :
                Performs(finished.ops, name)
          /\ \E i \in DOMAIN finished.ops : finished.ops[i].op = "wait"

(* C5 witness: a play sequence has returned after starting its elements. *)
C5_Witness ==
    /\ last = "SeqFinish"
    /\ Performs(finished.ops, "play")
    /\ \E v \in DOMAIN videos : ~videos[v].paused

(* C6: when a play sequence returns, exactly the element of the view that *)
(* is active then is unmuted.                                            *)
C6_UnmutedIsActive ==
    last = "SeqFinish" =>
        \A v \in DOMAIN videos : videos[v].muted <=> (v # activeView)

(* C6 witness: a sequence returns after the active view changed during it. *)
C6_Witness ==
    /\ last = "SeqFinish"
    /\ finished.startView # activeView
    /\ ~videos[activeView].muted

Precedes(lg, first, then, undo) ==
    \A i \in DOMAIN lg :
        lg[i] = then =>
            \E j \in 1 .. i - 1 :
                /\ lg[j] = first
                /\ \A k \in j + 1 .. i - 1 : lg[k] # undo

C7_ProposalGuard ==
    (last = "Tick" /\ tickObs.proposed) =>
        /\ tickObs.cand # tickObs.prevFrame
        /\ tickObs.prevTime = Undefined \/ now - tickObs.prevTime >= THROTTLE_MS
        /\ tickObs.outstanding = 0

(* C8 as stated: at most one frame-counter proposal is outstanding. *)
C8_AtMostOneOutstanding == Len(inflight) <= 1

ScenarioCandidates == <<10, 10, 11, 11, 12>>
FreshRunOfScenario == run.first = Undefined /\ run.cands = ScenarioCandidates

(* C9 as stated: in the run with candidates 10, 10, 11, 11, 12 the *)
(* coordinator proposes frame 10 and then frame 12, never 11.      *)
C9_AsStated == FreshRunOfScenario => run.props = <<10, 12>>

(* C9 amended: in that run the coordinator proposes frame 10 on the first  *)
(* tick and nothing else: 11 and 12 are both throttled, the fifth tick     *)
(* being 80 ms after the proposal.                                         *)
C9_OnlyFirstProposed == FreshRunOfScenario => run.props = <<10>>

(* C9 witness: the five ticks of the scenario have run. *)
C9_Witness == FreshRunOfScenario /\ last = "Tick" /\ run.props = <<10>>

AutoPaused == \E i \in DOMAIN log : log[i] = "switchPlay(false)"

(* C11: a change of the active control auto-pauses if and only if playback *)
(* is on, the previous control is no draw control and the new one is; in   *)
(* the step that auto-pauses, the intent flag is written false, then the   *)
(* elements are paused, then the stop request is sent, and afterwards the  *)
(* flag is false, every element is paused and the Player is not playing;   *)
(* no other step (starting playback with a draw tool armed among them)     *)
(* auto-pauses.                                                            *)
C11_AutoPauseOnEnteringDraw ==
    [][ /\ last' = "ChangeControl" =>
              /\ AutoPaused' <=> ( /\ playing
                                   /\ activeControl \notin DRAW_ACTIVE_CONTROLS
                                   /\ activeControl' \in DRAW_ACTIVE_CONTROLS )
              /\ AutoPaused' =>
                    /\ ~playingRef'
                    /\ \A v \in DOMAIN videos' : videos'[v].paused
                    /\ ~playing'
                    /\ Precedes(log', "pauseAllVideos", "switchPlay(false)", "playAllVideos")
        /\ last' # "ChangeControl" => ~AutoPaused' ]_vars

(* C11 witness: a draw control was entered during playback with elements *)
(* running, and the step has paused them.                                *)
C11_Witness ==
    /\ last = "ChangeControl"
    /\ AutoPaused
    /\ activeControl \in DRAW_ACTIVE_CONTROLS
    /\ ~playing /\ ~playingRef
    /\ sequences # <<>>
    /\ \A v \in DOMAIN videos : videos[v].paused

(* C12 as stated: every setup call on the surface is immediately followed *)
(* by a fit-to-container call (fitCanvas) and then a scale-recompute call *)
(* (fit), and no fit-to-container call comes right before a setup.        *)
C12_SetupThenFitThenScale ==
    \A i \in DOMAIN calls :
        calls[i].op = "setup" =>
            /\ i + 2 <= Len(calls)
            /\ calls[i + 1].op = "fitCanvas"
            /\ calls[i + 2].op = "fit"
            /\ i > 1 => calls[i - 1].op # "fitCanvas"

Setups == SelectSeq(calls, LAMBDA k : k.op = "setup")

(* what the view-scoped filter keeps of the current list for the active view *)
(* and the current frame, frame-level tags left out                          *)
ShownNow(a) ==
    /\ a.objectType # "tag"
    /\ a.objectType # "shape" \/ a.frame = frameNumber
    /\ ViewMatches(a, activeView)

C14_SurfaceInActiveView ==
    /\ canvasContainer \in {NoContainer, activeView}
    /\ mountedRef =>
          /\ canvasParent # NoContainer
          /\ canvasParent = canvasContainer
          /\ canvasParent = activeView

(* C14 witness: after a view selection the surface is mounted in the overlay *)
(* of a view other than the first.                                           *)
C14_Witness ==
    /\ last = "SelectView"
    /\ mountedRef
    /\ activeView # 1
    /\ canvasParent = activeView

(* C15 as stated: while a gesture is open on the surface the wrapper's *)
(* listeners are attached to it.                                       *)
C15_ListenersWhileGestureOpen ==
    (canvasInstance /\ canvas.gesture) => listeners

(* C16 as stated: a pause that arrives while a play sequence is suspended  *)
(* pre-empts it, so whenever no sequence is outstanding and the intent     *)
(* flag is false every media element is paused.                            *)
C16_PausePreempts ==
    (sequences = <<>> /\ ~playingRef) => \A v \in DOMAIN videos : videos[v].paused

(* |vw / vh - tw / th| as a multiple of 1 / (vh * th) *)
AspectGap(vw, vh, tw, th) == Abs(vw * th - tw * vh)

(* the view's aspect ratio is within 0.5% of the task's *)
AspectWithinThreshold(vw, vh, tw, th) == 200 * AspectGap(vw, vh, tw, th) <= tw * vh

(* C18 as stated: with a frame loaded and the video's size known, a view  *)
(* whose aspect ratio differs from the task's by more than the threshold  *)
(* gets a frame descriptor that differs from the task's, and a view whose *)
(* aspect ratio is within the threshold gets the task's descriptor        *)
(* unchanged.                                                             *)
C18_IdentityWithinThreshold ==
    ( /\ proxied
      /\ frameData.present
      /\ videoDimensions.width > 0 /\ videoDimensions.height > 0 ) =>
        IF AspectWithinThreshold(videoDimensions.width, videoDimensions.height,
                                 frameData.width, frameData.height)
        THEN effectiveFrameData = frameData
        ELSE effectiveFrameData # frameData

(* an annotation of the current list without viewId that the frame and type *)
(* tests of the filter let pass                                             *)
UnsetOnFrame(a) ==
    /\ a.viewId = Undefined
    /\ a.objectType # "tag"
    /\ a.objectType # "shape" \/ a.frame = frameNumber

C20_AllConfiguredViewsRendered ==
    (multiviewData \in { 1 .. n : n \in MIN_VIEWS .. MAX_VIEWS })
        => /\ DOMAIN videos = multiviewData
           /\ MultiviewVideoGrid(multiviewData) = multiviewData
           /\ activeView \in multiviewData

(* C21: when the master element reports its end during playback the Player *)
(* is asked to stop, and from then until the Player switches to playing    *)
(* again no step issues video.play() to an element.                        *)
C21_NoPlayAfterEnded ==
    [][/\ (last' = "MasterEnded" => ~playing')
       /\ (ended /\ last' # "Play" => last' # "SeqTimer")]_vars

(* C22: no step changes the viewId of an annotation the store already holds: *)
(* edit-done, description and review-flag edits, view selection, frame      *)
(* changes and setup calls leave it as stamped at creation.                 *)
C22_ViewIdImmutable ==
    [][\A i \in DOMAIN states :
          i \in DOMAIN states' /\ states'[i].viewId = states[i].viewId]_vars

(* an annotation created in another view than the active one has been edited *)
(* on the surface, described and flagged                                    *)
C22_Witness ==
    \E i \in DOMAIN states :
        /\ states[i].points # 0
        /\ states[i].description # ""
        /\ states[i].needs_review
        /\ activeView # states[i].viewId

(* C23: the result of the filter is determined by its arguments (the list, *)
(* the view, the frame and the other parameters): whatever the store holds *)
(* the same call returns the same result, and the input list is left as it *)
(* was.                                                                    *)
C23_FilterIgnoresStore ==
    fDone => \A store \in JobStores :
                 filterAnnotations(fAnnotations, fParams, store) = fResult

(* the viewId onCanvasShapeDrawn writes into a shape completed now *)
StampNow ==
    onCanvasShapeDrawn([CanvasWorld EXCEPT !.creating = <<>>], stateRefs,
                       [NoDetail EXCEPT !.label = 1]).creating[1].viewId

(* C24: when the active view is switched while a shape is in progress, the *)
(* shape stays pending and its completion is stamped with the view that    *)
(* was active when it was begun, not with the view switched to.            *)
C24_StampedWithStartView ==
    [][(canvas.gesture /\ activeView' # activeView)
          => (canvas'.gesture /\ StampNow' = activeView)]_vars

(* C25: while an existing shape is being edited (the surface in an edit, *)
(* drag or resize mode with the gesture open) no change of the active    *)
(* view, of the frame or of the annotation list issues a setup call.     *)
C25_NoSetupWhileEditing ==
    [][(/\ canvas.gesture
        /\ canvas.mode \in {"edit", "drag", "resize"}
        /\ last' \in {"SelectView", "ChangeFrame", "CreateSettled",
                      "DescriptionChange", "NeedsReviewChange"})
          => ~Issued("setup")']_vars

(* C26: a setup call withheld because a draw was armed or in progress is *)
(* made up for: the step that resolves the gesture with the control back *)
(* to cursor issues a setup call for the then current active view, frame *)
(* and annotations, and no mounted surface without a draw armed or in    *)
(* progress is left with a withheld setup.                               *)
C26_SetupAfterGesture ==
    /\ (/\ canvasInstance /\ mountedRef /\ canvasParent # NoContainer
        /\ ~shouldPreserveDrawState(CanvasWorld, activeControl))
          => ~withheld
    /\ (/\ last \in {"ShapeDrawn", "CancelDraw"} /\ before.withheld
        /\ ~shouldPreserveDrawState(CanvasWorld, activeControl))
          => /\ Setups # <<>>
             /\ Setups[Len(Setups)] = canvasSetup(CanvasWorld, stateRefs).calls[1]

(* a gesture during which the frame changed and the setup for the new frame *)
(* was withheld has been resolved                                           *)
C26_Witness ==
    /\ last \in {"ShapeDrawn", "CancelDraw"}
    /\ before.drawing
    /\ before.gesture
    /\ before.withheld
    /\ activeControl = CURSOR
    /\ canvas.mode = IDLE
    /\ Setups # <<>>
    /\ Setups[Len(Setups)].frame = frameNumber
    /\ frameNumber # 0

(* C27: when the active view changes with no gesture open, the surface is  *)
(* cancelled before it is configured in a container again, and after the   *)
(* step it is idle and the active control is the cursor: no draw, zoom or  *)
(* drag mode of the previous view is left in the new one.                  *)
C27_ModeResetOnViewChange ==
    (last = "SelectView" /\ canvasInstance /\ ~before.gesture) =>
        /\ \E i \in DOMAIN calls :
              /\ calls[i].op = "cancel"
              /\ \A j \in 1 .. i : calls[j].op # "configure"
        /\ canvas.mode = IDLE
        /\ ~canvas.gesture
        /\ activeControl = CURSOR

(* a view was selected while a mode was on in the previous one, and the *)
(* surface is on display in the new view                                *)
C27_Witness ==
    /\ last = "SelectView"
    /\ before.mode # IDLE
    /\ ~before.gesture
    /\ canvasParent = activeView
    /\ Issued("configure")

(* C28: while the Player stays playing the frames the coordinator proposes *)
(* never regress: the proposals of one activation of the frame-drive       *)
(* effect are in non-decreasing order, and a proposal is never below the   *)
(* frame proposed last since the Player switched to playing.               *)
C28_ProposalsNeverRegress ==
    /\ \A i, j \in DOMAIN run.props : i <= j => run.props[i] <= run.props[j]
    /\ (last = "Tick" /\ tickObs.proposed /\ tickObs.prevFrame # Undefined)
          => tickObs.cand >= tickObs.prevFrame

(* a second proposal of one activation, for a later frame than the first *)
C28_Witness ==
    /\ last = "Tick"
    /\ tickObs.proposed
    /\ Len(run.props) >= 2
    /\ run.props[1] < run.props[2]
    /\ tickObs.prevFrame = run.props[1]

(* C29: the completion of a frame proposal that arrives after playback was *)
(* paused and the user has sought does not replace the frame the user      *)
(* sought to: every proposal still outstanding is older than that frame.   *)
C29_LateCompletionKeepsNewerFrame ==
    [][(last = "ChangeFrame" /\ ~playing /\ last' = "Settle")
          => frameNumber' = frameNumber]_vars

(* C30: the in-flight flag of the live activation is set only while a      *)
(* proposal of that activation is outstanding, whether proposals succeeded *)
(* or failed; so a tick that sees a playing master, a candidate other than *)
(* the frame proposed last and the throttle interval elapsed, with no      *)
(* proposal of the activation outstanding, proposes.                       *)
C30_FlagClearedWhenSettled ==
    [][/\ (drive.alive /\ drive.pendingDispatch)
            => \E i \in DOMAIN inflight : inflight[i].own
       /\ (/\ drive.alive
           /\ \A i \in DOMAIN inflight : ~inflight[i].own
           /\ last' = "Tick"
           /\ tickObs'.ticked
           /\ tickObs'.cand # drive.lastDispatchedFrame
           /\ now' - drive.lastDispatchTime >= THROTTLE_MS)
            => tickObs'.proposed]_vars

(* a second proposal of an activation started by a play transition, made *)
(* with nothing outstanding and the Player still at the frame playback   *)
(* started from: the first proposal has settled without success          *)
C30_Witness ==
    /\ last = "Tick"
    /\ tickObs.proposed
    /\ tickObs.outstanding = 0
    /\ run.first = Undefined
    /\ Len(run.props) = 2
    /\ frameNumber = ScenarioFrame
    /\ frameNumber < run.props[1]

C32_RejectedPlayDoesNotAbort ==
    /\ last = "SeqTimer" =>
          /\ Len(log) = Cardinality(DOMAIN videos)
          /\ \A v \in DOMAIN videos : log[v] = "play" => ~videos[v].paused
          /\ \E i \in DOMAIN sequences :
                sequences[i].pc = "started" /\ Performs(sequences[i].ops, "play")
    /\ (/\ last = "SeqFinish"
        /\ \E v \in DOMAIN videos : videos[v].paused
        /\ \E v \in DOMAIN videos : ~videos[v].paused) =>
          /\ Performs(finished.ops, "play")
          /\ Performs(finished.ops, "unmute")
          /\ \A v \in DOMAIN videos : ~videos[v].muted <=> (v = activeView)

(* a sequence returned after the active view's element had refused to play *)
(* and another had accepted                                                *)
C32_Witness ==
    /\ last = "SeqFinish"
    /\ playing
    /\ videos[activeView].paused
    /\ ~videos[activeView].muted
    /\ \E v \in DOMAIN videos : ~videos[v].paused

(* C33: in a step that mounts the surface while it was in a zoom or drag *)
(* mode, the wrapper issues one mode reset (cancel, zoomCanvas(false) or *)
(* dragCanvas(false)) for each mount, and the listeners are attached.    *)
C33_OneCancelPerMount ==
    (/\ canvasInstance
     /\ before.mode \in {"zoom_canvas", "drag_canvas"}
     /\ Issued("configure")) =>
        /\ Cardinality({i \in DOMAIN calls :
                           calls[i].op \in {"cancel", "zoomCanvas", "dragCanvas"}})
              = Cardinality({i \in DOMAIN calls : calls[i].op = "configure"})
        /\ listeners

(* C34: a setup call issued while the active view's element has no decoded *)
(* size (width or height not positive) is handed the task's frame data     *)
(* unchanged.                                                              *)
C34_IdentityWithoutDecodedSize ==
    \A i \in DOMAIN setupData :
        (videoSize[setupData[i].viewId].width <= 0
           \/ videoSize[setupData[i].viewId].height <= 0)
          => setupData[i].data = frameData

(* C36: the frame data of every setup call has the width and height of the *)
(* decoded media of the view the call is for, or is the task's frame data; *)
(* no setup call for a view carries the size of another view's media.      *)
C36_SetupWithOwnViewSize ==
    \A i \in DOMAIN setupData :
        \/ setupData[i].data = frameData
        \/ setupData[i].data =
              createVideoFrameDataProxy(frameData, videoSize[setupData[i].viewId].width,
                                        videoSize[setupData[i].viewId].height)

(* C35: whenever the intent flag is false, no play sequence and no frame *)
(* proposal is outstanding and the elements are at rest, every media      *)
(* element is within half a frame interval of the time of the frame       *)
(* counter.                                                               *)
C35_StoppedMediaAtFrame ==
    (/\ ~playingRef /\ sequences = <<>> /\ inflight = <<>>
     /\ \A v \in DOMAIN videos : videos[v].paused) =>
        \A v \in DOMAIN videos :
            Abs(videos[v].currentTime - TargetTime) <= seekTolerance(fps)

(* C37: every frame proposed to the Player, by the frame-drive effect or *)
(* by a click on the spectrogram, lies within the job's range.           *)
C37_ProposalsWithinJob ==
    \A i \in DOMAIN inflight :
        job.startFrame <= inflight[i].frame /\ inflight[i].frame <= job.stopFrame

(* a click at the right edge of the spectrogram, proposed as the job's last *)
(* frame, after playback has moved the frame counter                        *)
C37_Witness ==
    /\ last = "SpectrogramClick"
    /\ inflight = <<[frame |-> job.stopFrame, own |-> FALSE]>>
    /\ frameNumber > ScenarioFrame
    /\ frameNumber < job.stopFrame

(* C38: the conversions between frames and media time round-trip: after  *)
(* playAllVideos or the seek effect has moved an element to the time of  *)
(* the frame counter, the frame of that position is the frame counter;   *)
(* and the first proposal after a play transition is not below the frame *)
(* playback started from.                                                *)
C38_FrameTimeRoundTrip ==
    /\ last = "Play" =>
          \A v \in DOMAIN videos :
              candidateFrame(videos[v].currentTime, fps) + job.startFrame = frameNumber
    /\ \A v \in seeked :
          candidateFrame(videos[v].currentTime, fps) + job.startFrame = frameNumber
    /\ (run.first = Undefined /\ run.props # <<>>) =>
          Min(run.props[1] + job.startFrame, job.stopFrame) >= run.from

(* playback started from a frame of a job whose first frame is not 0, and *)
(* the first proposal is the next frame                                   *)
C38_Witness ==
    /\ last = "Tick"
    /\ tickObs.proposed
    /\ job.startFrame > 0
    /\ run.first = Undefined
    /\ Len(run.props) = 1
    /\ run.props[1] + job.startFrame = run.from + 1


(* C39: at most one media element is unmuted in every state, and while no *)
(* play sequence is between its first and its last step an element is     *)
(* unmuted exactly when it belongs to the active view.                     *)
C39_OnlyActiveUnmuted ==
    /\ Cardinality({v \in DOMAIN videos : ~videos[v].muted}) <= 1
    /\ sequences = <<>> =>
          \A v \in DOMAIN videos : ~videos[v].muted <=> (v = activeView)

(* the view was changed inside the muted phase of a play sequence that a  *)
(* pause overtook, and the sequence has returned                          *)
C39_Witness ==
    /\ last = "SeqFinish"
    /\ sequences = <<>>
    /\ ~playing
    /\ finished.startView # activeView
    /\ ~videos[activeView].muted
    /\ \A v \in DOMAIN videos : v # activeView => videos[v].muted

=============================================================================
